---- MODULE Spec2Model ----
(***************************************************************************)
(* Multi-model request execution core of Chart-Wargame                     *)
(* (services/geminiService.ts): executeWithModelPipeline drives            *)
(* attemptModelExecution over MODEL_PIPELINE; every endpoint call is raced *)
(* against a deadline by withTimeout.  The operation adapters build the    *)
(* requests and parse the responses; the App component (constants.ts)      *)
(* starts the adapters from user events.                                   *)
(*                                                                         *)
(* An error message is modelled by the set of marker texts it contains, so *)
(* that String.includes(m) is membership and toLowerCase maps every marker *)
(* to its lower-case form.                                                 *)
(***************************************************************************)
EXTENDS Integers, Sequences, FiniteSets, TLC

\* ------------------------------------------------------------------ bounds
\* longest pipeline explored (MODEL_PIPELINE is any non-empty list up to this)
MaxModels == 2

\* ------------------------------------------------------- program constants
InitialRetries == 1
InitialDelay == 1500
DelayStep == 1000
CooldownMs == 500
AttemptTimeoutMs == 25000

\* ------------------------------------------------------------------- state
VARIABLES
  models,     \* MODEL_PIPELINE: sequence of model identifiers
  onUpdate,   \* the status callback: "absent", "returns" or "throws"
  pc,         \* position of the invocation
  i,          \* loop index of executeWithModelPipeline (1-based)
  retries,    \* attemptModelExecution.retries
  delay,      \* attemptModelExecution.delay
  awaited,    \* id of the endpoint call the current withTimeout races, 0 if none
  pending,    \* ids of endpoint calls that have not settled yet
  timedOut,   \* ids of endpoint calls whose deadline fired before they settled
  lateOk,     \* ids of abandoned calls that succeeded after their deadline
  callLog,    \* call id -> model the endpoint call was made to
  requests,   \* call id -> the request handed to generateContent
  lastFail,   \* the error most recently caught by attemptModelExecution
  lastError,  \* executeWithModelPipeline.lastError
  caught,     \* per failed iteration: the model and the locals isFatal and
              \* isRecoverableBySwitching of the catch block
  result,     \* executeWithModelPipeline.result: what attemptModelExecution returned
  trace,      \* observable events in order: calls, statuses, waits
  outcome,    \* how the promise returned by executeWithModelPipeline settled
  op,         \* the caller of the pipeline: "pipeline" (any closure) or an adapter
  payload,    \* content of the object the adapter closure returned
  returned,   \* how the promise returned by the adapter settled
  \* state of the App component (constants.ts) and the service calls it made
  appState,          \* AppState
  image,             \* the selected image, 0 = null
  analysis,          \* ChartAnalysis with the image it was made from
  marketData,        \* "none" = null, or "data"
  simulation,        \* image the SimulationResult was made for, 0 = null
  editableTicker,    \* "" or a ticker symbol
  currentScenario,   \* "" or the scenario text of the last simulation
  uiError,           \* App.error: "" = null, or the message shown
  savedSimulations,  \* the history, newest first
  isHistoryOpen,     \* the history drawer is shown
  inFlight,          \* service calls of the App that have not settled
  backtestModalOpen,               \* the backtest modal is shown
  selectedSimulationForBacktest,   \* NoSelection = null, or an entry of the history
  backtestInFlight,  \* NoClosure, or the handleBacktestComplete closure that
                     \* the running calculateBacktestScore call will invoke
  historyOps,        \* saves, deletions and backtest runs made so far
  \* state of generateOfflineSimulation (part_001), prices in hundredths
  lastPrice,         \* the lastPrice argument
  drift,             \* drift, from the scenario argument
  currentClose,      \* currentClose
  ghost_candles,     \* candles, returned as ghost_candles
  rng                \* the values the next calls of Math.random() return

vars == <<models, onUpdate, pc, i, retries, delay, awaited, pending, timedOut,
          lateOk, callLog, requests, lastFail, lastError, caught, result, trace,
          outcome, op, payload, returned,
          appState, image, analysis, marketData, simulation, editableTicker,
          currentScenario, uiError, savedSimulations, isHistoryOpen, inFlight,
          backtestModalOpen, selectedSimulationForBacktest, backtestInFlight,
          historyOps, lastPrice, drift, currentClose, ghost_candles, rng>>

\* the variables of one service invocation
serviceVars ==
  <<models, onUpdate, pc, i, retries, delay, awaited, pending, timedOut, lateOk,
    callLog, requests, lastFail, lastError, caught, result, trace, outcome, op,
    payload, returned>>

\* the App's variables of the backtest modal, and the count of history actions
historyVars ==
  <<backtestModalOpen, selectedSimulationForBacktest, backtestInFlight,
    historyOps>>

\* the variables of generateOfflineSimulation
generatorVars == <<lastPrice, drift, currentClose, ghost_candles, rng>>

\* the variables of the App component
uiVars ==
  <<appState, image, analysis, marketData, simulation, editableTicker,
    currentScenario, uiError, savedSimulations, isHistoryOpen, inFlight,
    historyVars>>

\* identifiers available to a pipeline, in priority order
ModelNames == <<"model-A", "model-B", "model-C", "model-D", "model-E">>

MODEL_PIPELINE(n) == SubSeq(ModelNames, 1, n)

\* --------------------------------------------------------- error messages
\* String.prototype.toLowerCase on one marker text
ToLowerTok(t) ==
  CASE t = "API key" -> "api key"
    [] t = "API Key" -> "api key"
    [] t = "RESOURCE_EXHAUSTED" -> "resource_exhausted"
    [] t = "Service Unavailable" -> "service unavailable"
    [] t = "PERMISSION_DENIED" -> "permission_denied"
    [] t = "TIMEOUT" -> "timeout"
    [] t = "ALL ENGINES FAILED" -> "all engines failed"
    [] OTHER -> t

\* (error?.message || "").toLowerCase()
toLowerCase(msg) == {ToLowerTok(t) : t \in msg}

\* msg.includes(marker)
includes(msg, marker) == marker \in msg

\* messages an endpoint call (the adapter closure) can reject with
EndpointMessages ==
  { {},                                   \* no message / unrecognised / parse error
    {"429"}, {"quota"}, {"RESOURCE_EXHAUSTED"}, {"429", "RESOURCE_EXHAUSTED"},
    {"503"}, {"Service Unavailable"}, {"fetch failed"}, {"overloaded"},
    {"API key"}, {"permission denied"}, {"PERMISSION_DENIED"},
    {"API key", "429"}, {"permission denied", "overloaded"} }

\* messages a throwing status callback raises
CallbackMessages == { {}, {"quota"} }

\* values of a model_used field inside a parsed payload ("" = field absent)
PayloadModelUsed == {"", "model-A", "payload-model"}

\* ------------------------------------------------------------ error values
NoError == [kind |-> "none", origin |-> 0, at |-> 0, msg |-> {}]

\* the rejection of the adapter closure for call c
EndpointError(c, m, at) == [kind |-> "endpoint", origin |-> c, at |-> at, msg |-> m]

\* new Error(`TIMEOUT: ${context} (${model})`) raised by the deadline of call c
TimeoutError(c, at) == [kind |-> "timeout", origin |-> c, at |-> at, msg |-> {"TIMEOUT"}]

\* new Error(`CRITICAL: ALL ENGINES FAILED. LAST ERROR: ${msg}`)
AllEnginesFailed(msg) ==
  [kind |-> "synthesized", origin |-> 0, at |-> 0, msg |-> {"ALL ENGINES FAILED"} \cup msg]

\* what a throwing status callback raises
CallbackError(m) == [kind |-> "callback", origin |-> 0, at |-> 0, msg |-> m]

\* ------------------------------------------------------------ classifiers
\* executeWithModelPipeline: isRecoverableBySwitching
isRecoverableBySwitching(msg) ==
  \/ includes(msg, "429")
  \/ includes(msg, "quota")
  \/ includes(msg, "resource_exhausted")
  \/ includes(msg, "503")
  \/ includes(msg, "service unavailable")
  \/ includes(msg, "fetch failed")
  \/ includes(msg, "overloaded")

\* variant: a message that is also switch-eligible does not count as fatal
isFatalUnlessSwitchable(msg) ==
  (includes(msg, "api key") \/ includes(msg, "permission denied"))
    /\ ~isRecoverableBySwitching(msg)

\* executeWithModelPipeline: isFatal
isFatal(msg) == includes(msg, "api key") \/ includes(msg, "permission denied")

\* variant: a deadline expiry counted among the hard errors
isHardErrorOrTimeout(msg) ==
  includes(msg, "429") \/ includes(msg, "quota") \/ includes(msg, "503")
    \/ includes(msg, "timeout")

\* attemptModelExecution: isHardError
isHardError(msg) == includes(msg, "429") \/ includes(msg, "quota") \/ includes(msg, "503")

\* ------------------------------------------------------------------ events
\* apiCall(model): endpoint call number c goes to model
CallEvent(c, model) == [ev |-> "call", kind |-> "", model |-> model, n |-> c]
\* variant: the backup-engine status without the model's name
EngagingEventUnnamed(model) == [ev |-> "status", kind |-> "ENGAGING", model |-> "", n |-> 0]
\* onUpdate(`ENGAGING BACKUP ENGINE: ${currentModel}...`)
EngagingEvent(model) == [ev |-> "status", kind |-> "ENGAGING", model |-> model, n |-> 0]
\* variant: the status reports the counter after the decrement
RetryingEventAfterDecrement(r) ==
  [ev |-> "status", kind |-> "RETRYING", model |-> "", n |-> r - 1]

\* onUpdate(`RETRYING ${context} (${retries})...`)
RetryingEvent(r) == [ev |-> "status", kind |-> "RETRYING", model |-> "", n |-> r]
\* wait(ms)
WaitEvent(kind, ms) == [ev |-> "wait", kind |-> kind, model |-> "", n |-> ms]

\* index of a model in the pipeline (0 when it is not an entry)
IndexOf(model) ==
  IF \E k \in 1..Len(models) : models[k] = model
  THEN CHOOSE k \in 1..Len(models) : models[k] = model
  ELSE 0

\* ---------------------------------------------------------------- outcomes
NoValue == [call |-> 0, model_used |-> ""]
Pending == [kind |-> "pending", value |-> NoValue, error |-> NoError]
Resolved(v) == [kind |-> "resolved", value |-> v, error |-> NoError]
Rejected(e) == [kind |-> "rejected", value |-> NoValue, error |-> e]

\* content of an adapter result: which adapter built it, whether every
\* required field of its schema is present, and the adapter's own figures
NoBody ==
  [shape |-> "none", complete |-> FALSE, candles |-> 0, score |-> 0,
   summary |-> "", headlines |-> 0, sources |-> 0]

\* the adapter's promise: pending, resolved with (value, body) or rejected
NotReturned == [kind |-> "pending", value |-> NoValue, body |-> NoBody, error |-> NoError]
Returns(v, b) == [kind |-> "resolved", value |-> v, body |-> b, error |-> NoError]
Throws(e) == [kind |-> "rejected", value |-> NoValue, body |-> NoBody, error |-> e]

\* variant: { model_used: currentModel, ...result }, the payload's field wins
KeepPayloadModelUsed(res, currentModel) ==
  IF res.model_used = "" THEN [res EXCEPT !.model_used = currentModel] ELSE res

\* variant: the result returned as it is, without the model_used tag
WithModelUsedOmitted(res, currentModel) == res

\* { ...result, model_used: currentModel }
WithModelUsed(res, currentModel) == [res EXCEPT !.model_used = currentModel]

\* -------------------------------------------------------------------- Init
\* generateOfflineSimulation has not been called
GeneratorIdle ==
  /\ lastPrice = 0
  /\ drift = 0
  /\ currentClose = 0
  /\ ghost_candles = <<>>
  /\ rng = <<>>

\* One invocation on a non-empty pipeline.  The callers pass either no status
\* callback (BacktestModal.runBacktest) or (msg) => setLoadingMessage(msg)
\* (App), a state setter that returns normally.
InitService(ops, sinks) ==
  /\ GeneratorIdle
  /\ \E n \in 1..MaxModels : models = MODEL_PIPELINE(n)
  /\ onUpdate \in sinks
  /\ op \in ops
  /\ pc = "loop"
  /\ i = 1
  /\ retries = 0
  /\ delay = 0
  /\ awaited = 0
  /\ pending = {}
  /\ timedOut = {}
  /\ lateOk = {}
  /\ callLog = <<>>
  /\ requests = <<>>
  /\ lastFail = NoError
  /\ lastError = NoError
  /\ caught = <<>>
  /\ result = NoValue
  /\ payload = NoBody
  /\ trace = <<>>
  /\ outcome = Pending
  /\ returned = NotReturned

\* App after mount: useState initial values, history read from localStorage
NoAnalysis == [image |-> 0, ticker |-> ""]
NoSelection == [id |-> 0]
NoClosure ==
  [selectedSimulationForBacktest |-> NoSelection, savedSimulations |-> <<>>]
UiMounted(history) ==
  /\ appState = "IDLE"
  /\ image = 0
  /\ analysis = NoAnalysis
  /\ marketData = "none"
  /\ simulation = 0
  /\ editableTicker = ""
  /\ currentScenario = ""
  /\ uiError = ""
  /\ savedSimulations = history
  /\ isHistoryOpen = FALSE
  /\ inFlight = <<>>
  /\ backtestModalOpen = FALSE
  /\ selectedSimulationForBacktest = NoSelection
  /\ backtestInFlight = NoClosure
  /\ historyOps = 0

\* one service invocation, the App idle
InitWith(ops, sinks) == InitService(ops, sinks) /\ UiMounted(<<>>)

Init == InitWith({"pipeline"}, {"absent", "returns"})

\* the same invocation with a status callback that may throw
InitThrowingSink == InitWith({"pipeline"}, {"absent", "returns", "throws"})

\* ------------------------------------------------- executeWithModelPipeline
\* variant: the switch test placed before the fatal test
PipelineCatchSwitchFirst(idx, n, error) ==
  LET msg == toLowerCase(error.msg) IN
  IF isRecoverableBySwitching(msg)
    THEN IF idx = n
           THEN [act |-> "throw", error |-> AllEnginesFailed(msg)]
           ELSE [act |-> "continue", error |-> error]
  ELSE IF isFatal(msg) THEN [act |-> "throw", error |-> error]
  ELSE IF idx < n
         THEN [act |-> "continue", error |-> error]
         ELSE [act |-> "throw", error |-> error]

\* variant: a switch-eligible failure ends the operation on every index
PipelineCatchNoFallback(idx, n, error) ==
  LET msg == toLowerCase(error.msg) IN
  IF isFatal(msg) THEN [act |-> "throw", error |-> error]
  ELSE IF isRecoverableBySwitching(msg)
    THEN [act |-> "throw", error |-> AllEnginesFailed(msg)]
  ELSE IF idx < n
         THEN [act |-> "continue", error |-> error]
         ELSE [act |-> "throw", error |-> error]

\* variant: on the last index the model's own error is thrown in every case
PipelineCatchRawLast(idx, n, error) ==
  LET msg == toLowerCase(error.msg) IN
  IF isFatal(msg) THEN [act |-> "throw", error |-> error]
  ELSE IF idx < n
         THEN [act |-> "continue", error |-> error]
         ELSE [act |-> "throw", error |-> error]

\* variant: on the last index every non-fatal error is replaced by the
\* synthesized one
PipelineCatchSynthLast(idx, n, error) ==
  LET msg == toLowerCase(error.msg) IN
  IF isFatal(msg) THEN [act |-> "throw", error |-> error]
  ELSE IF idx < n
         THEN [act |-> "continue", error |-> error]
         ELSE [act |-> "throw", error |-> AllEnginesFailed(msg)]

\* variant: without the last-resort switch, an error that is neither fatal
\* nor switch-eligible is rethrown on every index
PipelineCatchUnknownThrows(idx, n, error) ==
  LET msg == toLowerCase(error.msg) IN
  IF isFatal(msg) THEN [act |-> "throw", error |-> error]
  ELSE IF isRecoverableBySwitching(msg)
    THEN IF idx = n
           THEN [act |-> "throw", error |-> AllEnginesFailed(msg)]
           ELSE [act |-> "continue", error |-> error]
    ELSE [act |-> "throw", error |-> error]

\* the catch block of executeWithModelPipeline in iteration idx of n:
\* which error is thrown to the caller, or "continue" with the next model
PipelineCatch(idx, n, error) ==
  LET msg == toLowerCase(error.msg) IN
  IF isFatal(msg) THEN [act |-> "throw", error |-> error]
  ELSE IF isRecoverableBySwitching(msg)
    THEN IF idx = n
           THEN [act |-> "throw", error |-> AllEnginesFailed(msg)]
           ELSE [act |-> "continue", error |-> error]
    ELSE IF idx < n
           THEN [act |-> "continue", error |-> error]
           ELSE [act |-> "throw", error |-> error]

\* the locals of the catch block for the lower-cased message msg
CaughtEntry(model, msg) ==
  [model |-> model, isFatal |-> isFatal(msg),
   isRecoverableBySwitching |-> isRecoverableBySwitching(msg)]

\* control reaches the catch block of executeWithModelPipeline with error
Catch(error) ==
  LET d == PipelineCatch(i, Len(models), error) IN
  /\ lastError' = error
  /\ caught' = Append(caught, CaughtEntry(models[i], toLowerCase(error.msg)))
  /\ awaited' = 0
  /\ IF d.act = "throw"
       THEN /\ outcome' = Rejected(d.error)
            /\ pc' = "done"
            /\ i' = i
       ELSE /\ outcome' = outcome
            /\ pc' = "loop"
            /\ i' = i + 1

\* ------------------------------------------------------- endpoint requests
\* variant: after a failure the prompt is extended with the caught error
RequestWithLastError(a, model) ==
  LET req(prompt, img, schema, tools, temperature) ==
        [model |-> model,
         prompt |-> IF lastFail.kind = "none" THEN prompt ELSE "prompt and error",
         image |-> img, schema |-> schema, tools |-> tools,
         temperature |-> temperature]
  IN CASE a = "analyzeChart" -> req("analyst", TRUE, "ANALYSIS_SCHEMA", FALSE, "0.1")
       [] a = "fetchMarketContext" -> req("scout", FALSE, "none", TRUE, "unset")
       [] a = "runSimulation" -> req("oracle", TRUE, "SIMULATION_SCHEMA", FALSE, "0.4")
       [] a = "calculateBacktestScore" -> req("judge", TRUE, "BACKTEST_SCHEMA", FALSE, "0.1")
       [] OTHER -> req("closure", FALSE, "none", FALSE, "unset")

\* the argument of client.models.generateContent in the closure of adapter a
\* for model: the prompt and the image data are built once, before the
\* pipeline starts, from the adapter's arguments; schema, tools and
\* temperature are literals of the closure
Request(a, model) ==
  LET req(prompt, img, schema, tools, temperature) ==
        [model |-> model, prompt |-> prompt, image |-> img, schema |-> schema,
         tools |-> tools, temperature |-> temperature]
  IN CASE a = "analyzeChart" -> req("analyst", TRUE, "ANALYSIS_SCHEMA", FALSE, "0.1")
       [] a = "fetchMarketContext" -> req("scout", FALSE, "none", TRUE, "unset")
       [] a = "runSimulation" -> req("oracle", TRUE, "SIMULATION_SCHEMA", FALSE, "0.4")
       [] a = "calculateBacktestScore" -> req("judge", TRUE, "BACKTEST_SCHEMA", FALSE, "0.1")
       [] OTHER -> req("closure", FALSE, "none", FALSE, "unset")

\* ---------------------------------------------------- attemptModelExecution
\* variant: the closure ignores its argument and calls the primary model
IssueCallPrimary(tr) ==
  LET c == Len(callLog) + 1 IN
  /\ callLog' = Append(callLog, models[1])
  /\ requests' = Append(requests, Request(op, models[1]))
  /\ pending' = pending \cup {c}
  /\ awaited' = c
  /\ trace' = Append(tr, CallEvent(c, models[1]))
  /\ pc' = "await"

\* withTimeout(apiCall(model), 25000, ...): a fresh endpoint call is issued
\* and raced against the deadline
IssueCall(tr) ==
  LET c == Len(callLog) + 1 IN
  /\ callLog' = Append(callLog, models[i])
  /\ requests' = Append(requests, Request(op, models[i]))
  /\ pending' = pending \cup {c}
  /\ awaited' = c
  /\ trace' = Append(tr, CallEvent(c, models[i]))
  /\ pc' = "await"

\* variant: retries and delay declared once for the whole invocation, set up
\* before the first model only
BeginAttemptSharedBudget(tr) ==
  /\ retries' = IF callLog = <<>> THEN InitialRetries ELSE retries
  /\ delay' = IF callLog = <<>> THEN InitialDelay ELSE delay
  /\ IssueCall(tr)

\* entry of attemptModelExecution: retries = 1, delay = 1500, first call
BeginAttempt(tr) ==
  /\ retries' = InitialRetries
  /\ delay' = InitialDelay
  /\ IssueCall(tr)

\* variant: the retry test written as retries >= 0
AttemptCatchOffByOne(error, r) ==
  LET msg == toLowerCase(error.msg) IN
  IF isHardError(msg) THEN "rethrow"
  ELSE IF r >= 0 THEN "retry"
  ELSE "rethrow"

\* the catch block of attemptModelExecution: "rethrow" or "retry"
AttemptCatch(error, r) ==
  LET msg == toLowerCase(error.msg) IN
  IF isHardError(msg) THEN "rethrow"
  ELSE IF r > 0 THEN "retry"
  ELSE "rethrow"

\* variant: the RETRYING status is emitted for every caught failure, also
\* when the error is rethrown
AttemptFailsAlwaysAnnounces(error, p) ==
  /\ lastFail' = error
  /\ pending' = p
  /\ IF AttemptCatch(error, retries) = "retry"
       THEN IF onUpdate = "absent"
              THEN /\ trace' = Append(trace, WaitEvent("retry", delay))
                   /\ pc' = "retry_wait"
                   /\ UNCHANGED <<i, awaited, lastError, caught, outcome>>
            ELSE IF onUpdate = "returns"
              THEN /\ trace' = trace \o <<RetryingEvent(retries), WaitEvent("retry", delay)>>
                   /\ pc' = "retry_wait"
                   /\ UNCHANGED <<i, awaited, lastError, caught, outcome>>
            ELSE /\ trace' = Append(trace, RetryingEvent(retries))
                 /\ \E m \in CallbackMessages : Catch(CallbackError(m))
       ELSE /\ trace' = IF onUpdate = "absent" THEN trace
                        ELSE Append(trace, RetryingEvent(retries))
            /\ Catch(error)
  /\ UNCHANGED <<models, onUpdate, retries, delay, callLog, requests, result, op,
                 payload, returned>>

\* control reaches the catch block of attemptModelExecution with error,
\* after the endpoint calls in p are left unsettled
AttemptFails(error, p) ==
  /\ lastFail' = error
  /\ pending' = p
  /\ IF AttemptCatch(error, retries) = "retry"
       THEN IF onUpdate = "absent"
              THEN /\ trace' = Append(trace, WaitEvent("retry", delay))
                   /\ pc' = "retry_wait"
                   /\ UNCHANGED <<i, awaited, lastError, caught, outcome>>
            ELSE IF onUpdate = "returns"
              THEN /\ trace' = trace \o <<RetryingEvent(retries), WaitEvent("retry", delay)>>
                   /\ pc' = "retry_wait"
                   /\ UNCHANGED <<i, awaited, lastError, caught, outcome>>
            ELSE /\ trace' = Append(trace, RetryingEvent(retries))
                 /\ \E m \in CallbackMessages : Catch(CallbackError(m))
       ELSE /\ trace' = trace
            /\ Catch(error)
  /\ UNCHANGED <<models, onUpdate, retries, delay, callLog, requests, result, op, payload,
                 returned>>

\* ----------------------------------------------------------------- actions
\* loop head with a status callback on a fallback iteration:
\* onUpdate(ENGAGING BACKUP ENGINE), then wait(500)
EngageBackup ==
  /\ pc = "loop"
  /\ i > 1 /\ onUpdate # "absent"
  /\ IF onUpdate = "returns"
       THEN /\ trace' = trace \o <<EngagingEvent(models[i]), WaitEvent("cooldown", CooldownMs)>>
            /\ pc' = "cooldown"
            /\ UNCHANGED <<i, awaited, lastError, caught, outcome>>
       ELSE /\ trace' = Append(trace, EngagingEvent(models[i]))
            /\ \E m \in CallbackMessages : Catch(CallbackError(m))
  /\ UNCHANGED <<models, onUpdate, retries, delay, pending, timedOut, lateOk,
                 callLog, requests, lastFail, result, op, payload, returned>>
  /\ UNCHANGED <<uiVars, generatorVars>>

\* wait(500) elapses; attemptModelExecution starts on the fallback model
CooldownElapses ==
  /\ pc = "cooldown"
  /\ BeginAttempt(trace)
  /\ UNCHANGED <<models, onUpdate, i, timedOut, lateOk, lastFail, lastError,
                 caught, result, outcome, op, payload, returned>>
  /\ UNCHANGED <<uiVars, generatorVars>>

\* loop head without status and cooldown (primary model, or no callback):
\* attemptModelExecution starts at once
StartAttempt ==
  /\ pc = "loop"
  /\ ~(i > 1 /\ onUpdate # "absent")
  /\ BeginAttempt(trace)
  /\ UNCHANGED <<models, onUpdate, i, timedOut, lateOk, lastFail, lastError,
                 caught, result, outcome, op, payload, returned>>
  /\ UNCHANGED <<uiVars, generatorVars>>

\* variant: any unsettled call of the invocation can decide the awaited race
WinsRaceAny(c) == pc = "await"

\* withTimeout: the settlement of call c decides the race iff the race of
\* call c is the one being awaited and its deadline has not fired
WinsRace(c) == pc = "await" /\ c = awaited

\* the endpoint call c resolves with a parsed payload whose own model_used
\* field is pm; the first settlement wins the race
CallSucceeds(c, pm) ==
  /\ c \in pending
  /\ WinsRace(c)
  /\ result' = [call |-> c, model_used |-> pm]
  /\ outcome' = Resolved(WithModelUsed(result', models[i]))
  /\ pc' = "done"
  /\ pending' = pending \ {c}
  /\ awaited' = 0
  /\ UNCHANGED <<models, onUpdate, i, retries, delay, timedOut, lateOk, callLog, requests,
                 lastFail, lastError, caught, trace, op, payload, returned>>
  /\ UNCHANGED <<uiVars, generatorVars>>

\* the endpoint call c rejects with message m before its deadline
CallFails(c, m) ==
  /\ c \in pending
  /\ WinsRace(c)
  /\ AttemptFails(EndpointError(c, m, Len(trace)), pending \ {c})
  /\ UNCHANGED <<timedOut, lateOk>>
  /\ UNCHANGED <<uiVars, generatorVars>>

\* the 25000 ms deadline of the awaited call fires first: the race rejects
\* with the timeout error, the call itself stays in flight
DeadlineFires ==
  /\ pc = "await"
  /\ awaited \in pending
  /\ timedOut' = timedOut \cup {awaited}
  /\ AttemptFails(TimeoutError(awaited, Len(trace)), pending)
  /\ UNCHANGED lateOk
  /\ UNCHANGED <<uiVars, generatorVars>>

\* a call that lost its race settles afterwards: nobody awaits it
LateSettle(c, ok) ==
  /\ c \in pending
  /\ ~WinsRace(c)
  /\ pending' = pending \ {c}
  /\ lateOk' = IF ok THEN lateOk \cup {c} ELSE lateOk
  /\ UNCHANGED <<models, onUpdate, pc, i, retries, delay, awaited, timedOut,
                 callLog, requests, lastFail, lastError, caught, result, trace, outcome,
                 op, payload, returned>>
  /\ UNCHANGED <<uiVars, generatorVars>>

\* variant: the retry taken without consuming it
RetryWaitElapsesNoDecrement ==
  /\ pc = "retry_wait"
  /\ retries' = retries
  /\ delay' = delay + DelayStep
  /\ IssueCall(trace)
  /\ UNCHANGED <<models, onUpdate, i, timedOut, lateOk, lastFail, lastError,
                 caught, result, outcome, op, payload, returned>>
  /\ UNCHANGED <<uiVars, generatorVars>>

\* wait(delay) elapses: retries--, delay += 1000, next call to the same model
RetryWaitElapses ==
  /\ pc = "retry_wait"
  /\ retries' = retries - 1
  /\ delay' = delay + DelayStep
  /\ IssueCall(trace)
  /\ UNCHANGED <<models, onUpdate, i, timedOut, lateOk, lastFail, lastError,
                 caught, result, outcome, op, payload, returned>>
  /\ UNCHANGED <<uiVars, generatorVars>>

Next ==
  \/ EngageBackup
  \/ CooldownElapses
  \/ StartAttempt
  \/ \E c \in pending, pm \in PayloadModelUsed : CallSucceeds(c, pm)
  \/ \E c \in pending, m \in EndpointMessages : CallFails(c, m)
  \/ DeadlineFires
  \/ \E c \in pending, ok \in BOOLEAN : LateSettle(c, ok)
  \/ RetryWaitElapses

Spec == Init /\ [][Next]_vars

\* the pipeline driven with status callbacks that may throw
SpecThrowingSink == InitThrowingSink /\ [][Next]_vars

\* scheduling of one invocation: every wait(ms) timer elapses, the loop head
\* runs, and the race of withTimeout is decided at the latest by its deadline
Fairness ==
  /\ WF_vars(EngageBackup)
  /\ WF_vars(CooldownElapses)
  /\ WF_vars(StartAttempt)
  /\ WF_vars(RetryWaitElapses)
  /\ WF_vars(DeadlineFires)

SpecFair == Init /\ [][Next]_vars /\ Fairness

\* ------------------------------------------------------ operation adapters
Adapters == {"analyzeChart", "fetchMarketContext", "runSimulation", "calculateBacktestScore"}

InitAdapters == InitWith(Adapters, {"absent", "returns"})

\* messages client.models.generateContent rejects with
NetworkMessages == { {}, {"429"}, {"overloaded"}, {"API key"} }

\* marker texts inside a body that is not JSON (they show up in the
\* SyntaxError message of JSON.parse)
MalformedTexts == { {}, {"429"} }

\* number of ghost candles / the score / the number of text lines longer than
\* five characters / the number of grounding chunks with title and uri that
\* an endpoint response can carry
CandleCounts == {0, 3, 10, 12}
Scores == {0 - 5, 0, 50, 100, 150}
LineCounts == {0, 1, 2, 4, 6}
ChunkCounts == {0, 2}

\* response.text and what it holds: text is "empty", "malformed" (not JSON),
\* "null" (the JSON literal), "object" (a JSON object) or "plain" (prose);
\* fenced = wrapped in a markdown code fence
Response(text, fenced, markers, complete, pm, candles, score, lines, chunks) ==
  [text |-> text, fenced |-> fenced, markers |-> markers, complete |-> complete,
   model_used |-> pm, candles |-> candles, score |-> score, lines |-> lines,
   chunks |-> chunks]

\* the responses the endpoint can give to the request of adapter a
Responses(a) ==
  IF a = "fetchMarketContext"
    THEN {Response("empty", FALSE, {}, FALSE, "", 0, 0, 0, ch) : ch \in ChunkCounts}
           \cup {Response("plain", FALSE, {}, FALSE, "", 0, 0, n, ch) :
                   n \in LineCounts, ch \in ChunkCounts}
    ELSE {Response("empty", FALSE, {}, FALSE, "", 0, 0, 0, 0)}
           \cup {Response("malformed", FALSE, m, FALSE, "", 0, 0, 0, 0) : m \in MalformedTexts}
           \cup {Response("null", f, {}, FALSE, "", 0, 0, 0, 0) : f \in BOOLEAN}
           \cup (IF a = "analyzeChart"
                   THEN {Response("object", f, {}, c, pm, 0, 0, 0, 0) :
                           f \in BOOLEAN, c \in BOOLEAN, pm \in PayloadModelUsed}
                 ELSE IF a = "runSimulation"
                   THEN {Response("object", f, {}, TRUE, pm, n, 0, 0, 0) :
                           f \in BOOLEAN, pm \in PayloadModelUsed, n \in CandleCounts}
                          \cup {Response("object", f, {}, FALSE, "", 0, 0, 0, 0) : f \in BOOLEAN}
                 ELSE {Response("object", f, {}, TRUE, pm, 0, sc, 0, 0) :
                         f \in BOOLEAN, pm \in PayloadModelUsed, sc \in Scores}
                        \cup {Response("object", f, {}, FALSE, "", 0, 0, 0, 0) : f \in BOOLEAN})

\* text.replace(/```json|```/g, '').trim()
cleanJsonString(r) == [r EXCEPT !.fenced = FALSE]

\* JSON.parse: a SyntaxError (quoting the text) for anything that is not JSON
JSONparse(r) ==
  IF r.fenced \/ r.text \in {"malformed", "plain", "empty"}
    THEN [ok |-> FALSE, msg |-> r.markers, value |-> r]
    ELSE [ok |-> TRUE, msg |-> {}, value |-> r]

\* outcomes of the closure an adapter hands to the pipeline
ClosureThrows(msg) == [ok |-> FALSE, msg |-> msg, model_used |-> "", body |-> NoBody]
ClosureReturns(pm, body) == [ok |-> TRUE, msg |-> {}, model_used |-> pm, body |-> body]

Min(a, b) == IF a < b THEN a ELSE b

\* analyzeChart: if (!text) throw ...; return JSON.parse(cleanJsonString(text))
AnalyzeChartClosure(r) ==
  IF r.text = "empty" THEN ClosureThrows({})
  ELSE LET p == JSONparse(cleanJsonString(r)) IN
       IF ~p.ok THEN ClosureThrows(p.msg)
       ELSE ClosureReturns(p.value.model_used,
              [NoBody EXCEPT !.shape = "ChartAnalysis",
                             !.complete = p.value.text = "object" /\ p.value.complete])

\* runSimulation: if (!text) throw ...; return JSON.parse(cleanJsonString(text))
RunSimulationClosure(r) ==
  IF r.text = "empty" THEN ClosureThrows({})
  ELSE LET p == JSONparse(cleanJsonString(r)) IN
       IF ~p.ok THEN ClosureThrows(p.msg)
       ELSE ClosureReturns(p.value.model_used,
              [NoBody EXCEPT !.shape = "SimulationResult",
                             !.complete = p.value.text = "object" /\ p.value.complete,
                             !.candles = p.value.candles])

\* calculateBacktestScore: if (!text) throw ...; result = JSON.parse(...);
\* return { score: result.score, critique: result.critique, timestamp }
BacktestClosure(r) ==
  IF r.text = "empty" THEN ClosureThrows({})
  ELSE LET p == JSONparse(cleanJsonString(r)) IN
       IF ~p.ok THEN ClosureThrows(p.msg)
       ELSE IF p.value.text = "null" THEN ClosureThrows({})
       ELSE ClosureReturns("",
              [NoBody EXCEPT !.shape = "BacktestResult",
                             !.complete = p.value.complete,
                             !.score = p.value.score])

\* variant: fetchMarketContext treats an empty text like the other adapters
MarketContextClosureStrict(r) ==
  IF r.text = "empty" THEN ClosureThrows({})
  ELSE LET n == r.lines
           summary == IF n = 0 THEN "Data unavailable" ELSE "first line"
       IN ClosureReturns("",
            [NoBody EXCEPT !.shape = "MarketData",
                           !.complete = TRUE,
                           !.summary = summary,
                           !.headlines = IF n = 0 THEN 0 ELSE Min(n - 1, 3),
                           !.sources = r.chunks])

\* fetchMarketContext: fullText = response.text || "No data."; the lines
\* longer than five characters; summary = lines[0] || "Data unavailable";
\* headlines = lines.slice(1, 4); sources = the chunks with uri and title
MarketContextClosure(r) ==
  LET n == IF r.text = "empty" THEN 1 ELSE r.lines
      summary == IF r.text = "empty" THEN "No data."
                 ELSE IF n = 0 THEN "Data unavailable"
                 ELSE "first line"
  IN ClosureReturns("",
       [NoBody EXCEPT !.shape = "MarketData",
                      !.complete = TRUE,
                      !.summary = summary,
                      !.headlines = IF n = 0 THEN 0 ELSE Min(n - 1, 3),
                      !.sources = r.chunks])

\* the apiCall closure of adapter a applied to the endpoint's response
Closure(a, r) ==
  CASE a = "analyzeChart" -> AnalyzeChartClosure(r)
    [] a = "runSimulation" -> RunSimulationClosure(r)
    [] a = "calculateBacktestScore" -> BacktestClosure(r)
    [] a = "fetchMarketContext" -> MarketContextClosure(r)

\* fetchMarketContext's catch: { summary: "REAL-TIME DATA UNAVAILABLE.", [], [] }
MarketPlaceholder ==
  [NoBody EXCEPT !.shape = "MarketData", !.complete = TRUE,
                 !.summary = "REAL-TIME DATA UNAVAILABLE."]

\* variant: fetchMarketContext lets a fatal error through
AdapterReturnFatalThrough(a, out, body) ==
  IF out.kind = "resolved" THEN Returns(out.value, body)
  ELSE IF a = "fetchMarketContext" /\ ~isFatal(toLowerCase(out.error.msg))
    THEN Returns(NoValue, MarketPlaceholder)
  ELSE Throws(out.error)

\* variant: calculateBacktestScore answers a failure with a neutral score
AdapterReturnNeutralScore(a, out, body) ==
  IF out.kind = "resolved" THEN Returns(out.value, body)
  ELSE IF a = "fetchMarketContext" THEN Returns(NoValue, MarketPlaceholder)
  ELSE IF a = "calculateBacktestScore"
    THEN Returns(NoValue, [NoBody EXCEPT !.shape = "BacktestResult",
                                         !.complete = TRUE, !.score = 50])
  ELSE Throws(out.error)

\* return await executeWithModelPipeline(...), inside try/catch only in
\* fetchMarketContext
AdapterReturn(a, out, body) ==
  IF out.kind = "resolved" THEN Returns(out.value, body)
  ELSE IF a = "fetchMarketContext" THEN Returns(NoValue, MarketPlaceholder)
  ELSE Throws(out.error)

\* generateContent for call c answers with response r before the deadline;
\* the adapter closure parses it and returns or throws
ResponseArrives(c, r) ==
  LET o == Closure(op, r) IN
  /\ c \in pending
  /\ WinsRace(c)
  /\ IF o.ok
       THEN /\ result' = [call |-> c, model_used |-> o.model_used]
            /\ payload' = o.body
            /\ outcome' = Resolved(WithModelUsed(result', models[i]))
            /\ pc' = "done"
            /\ pending' = pending \ {c}
            /\ awaited' = 0
            /\ UNCHANGED <<models, onUpdate, i, retries, delay, callLog, requests, lastFail,
                           lastError, caught, trace, op, returned>>
       ELSE AttemptFails(EndpointError(c, o.msg, Len(trace)), pending \ {c})
  /\ UNCHANGED <<timedOut, lateOk>>
  /\ UNCHANGED <<uiVars, generatorVars>>

\* the pipeline's promise has settled: the adapter's promise settles
AdapterSettles ==
  /\ pc = "done"
  /\ returned' = AdapterReturn(op, outcome, payload)
  /\ pc' = "returned"
  /\ UNCHANGED <<models, onUpdate, i, retries, delay, awaited, pending, timedOut,
                 lateOk, callLog, requests, lastFail, lastError, caught, result, trace,
                 outcome, op, payload>>
  /\ UNCHANGED <<uiVars, generatorVars>>

NextAdapters ==
  \/ EngageBackup
  \/ CooldownElapses
  \/ StartAttempt
  \/ \E c \in pending : \E r \in Responses(op) : ResponseArrives(c, r)
  \/ \E c \in pending, m \in NetworkMessages : CallFails(c, m)
  \/ DeadlineFires
  \/ \E c \in pending, ok \in BOOLEAN : LateSettle(c, ok)
  \/ RetryWaitElapses
  \/ AdapterSettles

\* the four operations of the service, each driving the pipeline
SpecAdapters == InitAdapters /\ [][NextAdapters]_vars

\* ------------------------------------------------------- the App component
\* The App (constants.ts) with its panels.  A service call is an entry of
\* inFlight from the moment the adapter is called until its promise settles;
\* analyzeChart and runSimulation resolve or reject, fetchMarketContext only
\* resolves.  Presentation state that no handler reads (loadingMessage,
\* activeModel, isEditingTicker, isSharing) is left out.

\* distinct images the user has at hand
MaxImages == 2
\* service calls of the App in flight at one time
MaxInFlight == 2

Images == 1..MaxImages
Tickers == {"", "TICK"}
Scenarios == {"BASELINE_PREDICTION", "custom scenario"}

\* an entry of the history as handleSaveSimulation stores it
SavedSimulation(id, img, ticker, scenario, market) ==
  [id |-> id, imageBase64 |-> img, ticker |-> ticker, scenario |-> scenario,
   analysis |-> [image |-> img, ticker |-> ticker], simulation |-> img,
   marketData |-> market, backtest |-> "none"]

\* contents of localStorage['chartWargame_history'] found at mount
StoredHistories ==
  { <<>>, <<SavedSimulation(1, 1, "TICK", "BASELINE_PREDICTION", "none")>> }

\* a service call in flight: the adapter and the image it was given
ServiceCall(kind, img) == [kind |-> kind, image |-> img]

\* the sequence without its k-th entry
RemoveAt(seq, k) == SubSeq(seq, 1, k - 1) \o SubSeq(seq, k + 1, Len(seq))

InitUI ==
  /\ InitService({"pipeline"}, {"returns"})
  /\ Len(models) = 1
  /\ \E h \in StoredHistories : UiMounted(h)

\* isWorking
isWorking == appState \in {"ANALYZING_CHART", "FETCHING_DATA", "SIMULATING"}
\* isChartReady
isChartReady == analysis # NoAnalysis
\* the results display is rendered
ResultsShown ==
  (analysis # NoAnalysis \/ simulation # 0 \/ marketData # "none") /\ ~isWorking
\* ScenarioPanel is rendered and its isLoading prop is false
ScenarioPanelEnabled == image # 0 /\ ~(isWorking \/ ~isChartReady)

\* FileUpload: a file is chosen or an image is pasted; handleImageSelect
handleImageSelect(img) ==
  /\ Len(inFlight) < MaxInFlight
  /\ image' = img
  /\ analysis' = NoAnalysis
  /\ marketData' = "none"
  /\ simulation' = 0
  /\ currentScenario' = ""
  /\ editableTicker' = ""
  /\ uiError' = ""
  /\ appState' = "ANALYZING_CHART"
  /\ inFlight' = Append(inFlight, ServiceCall("analyzeChart", img))
  /\ UNCHANGED <<savedSimulations, isHistoryOpen>>
  /\ UNCHANGED <<serviceVars, historyVars, generatorVars>>

\* the analyzeChart call at position k settles; the rest of handleImageSelect
AnalyzeChartSettles(k, ok, ticker) ==
  /\ k \in DOMAIN inFlight
  /\ inFlight[k].kind = "analyzeChart"
  /\ inFlight' = RemoveAt(inFlight, k)
  /\ IF ok
       THEN /\ analysis' = [image |-> inFlight[k].image, ticker |-> ticker]
            /\ editableTicker' = ticker
            /\ appState' = "CHART_READY"
            /\ uiError' = uiError
       ELSE /\ appState' = "ERROR"
            /\ uiError' = "OBSERVER FAILED"
            /\ UNCHANGED <<analysis, editableTicker>>
  /\ UNCHANGED <<image, marketData, simulation, currentScenario,
                 savedSimulations, isHistoryOpen>>
  /\ UNCHANGED <<serviceVars, historyVars, generatorVars>>

\* the ticker field of the results display is edited
EditTicker(ticker) ==
  /\ ResultsShown /\ analysis # NoAnalysis
  /\ ticker # editableTicker
  /\ editableTicker' = ticker
  /\ UNCHANGED <<appState, image, analysis, marketData, simulation,
                 currentScenario, uiError, savedSimulations, isHistoryOpen,
                 inFlight>>
  /\ UNCHANGED <<serviceVars, historyVars, generatorVars>>

\* the refresh button or Enter in the ticker field; handleManualIntelRefresh
handleManualIntelRefresh ==
  /\ ResultsShown /\ analysis # NoAnalysis
  /\ Len(inFlight) < MaxInFlight
  /\ IF editableTicker = "" \/ analysis = NoAnalysis
       THEN UNCHANGED <<appState, marketData, inFlight>>
       ELSE /\ appState' = "FETCHING_DATA"
            /\ marketData' = "none"
            /\ inFlight' = Append(inFlight, ServiceCall("fetchMarketContext", 0))
  /\ UNCHANGED <<image, analysis, simulation, editableTicker, currentScenario,
                 uiError, savedSimulations, isHistoryOpen>>
  /\ UNCHANGED <<serviceVars, historyVars, generatorVars>>

\* the fetchMarketContext call at position k resolves
MarketContextSettles(k) ==
  /\ k \in DOMAIN inFlight
  /\ inFlight[k].kind = "fetchMarketContext"
  /\ inFlight' = RemoveAt(inFlight, k)
  /\ marketData' = "data"
  /\ appState' = "CHART_READY"
  /\ UNCHANGED <<image, analysis, simulation, editableTicker, currentScenario,
                 uiError, savedSimulations, isHistoryOpen>>
  /\ UNCHANGED <<serviceVars, historyVars, generatorVars>>

\* ScenarioPanel: a preset is clicked or the custom form is submitted;
\* handleSimulate
handleSimulate(scenario) ==
  /\ ScenarioPanelEnabled
  /\ Len(inFlight) < MaxInFlight
  /\ IF image = 0 \/ analysis = NoAnalysis
       THEN /\ uiError' = "MISSING INTEL"
            /\ UNCHANGED <<appState, currentScenario, inFlight>>
       ELSE /\ appState' = "SIMULATING"
            /\ uiError' = ""
            /\ currentScenario' = scenario
            /\ inFlight' = Append(inFlight, ServiceCall("runSimulation", image))
  /\ UNCHANGED <<image, analysis, marketData, simulation, editableTicker,
                 savedSimulations, isHistoryOpen>>
  /\ UNCHANGED <<serviceVars, historyVars, generatorVars>>

\* the runSimulation call at position k settles; the rest of handleSimulate
SimulationSettles(k, ok) ==
  /\ k \in DOMAIN inFlight
  /\ inFlight[k].kind = "runSimulation"
  /\ inFlight' = RemoveAt(inFlight, k)
  /\ IF ok
       THEN /\ simulation' = inFlight[k].image
            /\ appState' = "SIMULATED"
            /\ uiError' = uiError
       ELSE /\ appState' = "ERROR"
            /\ uiError' = "SIMULATION FAILED"
            /\ simulation' = simulation
  /\ UNCHANGED <<image, analysis, marketData, editableTicker, currentScenario,
                 savedSimulations, isHistoryOpen>>
  /\ UNCHANGED <<serviceVars, historyVars, generatorVars>>

\* the HISTORY button of the header
OpenHistory ==
  /\ ~isHistoryOpen
  /\ isHistoryOpen' = TRUE
  /\ UNCHANGED <<appState, image, analysis, marketData, simulation,
                 editableTicker, currentScenario, uiError, savedSimulations,
                 inFlight>>
  /\ UNCHANGED <<serviceVars, historyVars, generatorVars>>

\* the close button of the history drawer
CloseHistory ==
  /\ isHistoryOpen
  /\ isHistoryOpen' = FALSE
  /\ UNCHANGED <<appState, image, analysis, marketData, simulation,
                 editableTicker, currentScenario, uiError, savedSimulations,
                 inFlight>>
  /\ UNCHANGED <<serviceVars, historyVars, generatorVars>>

\* HistoryDrawer: an entry is loaded; handleLoadSimulation, then onClose
handleLoadSimulation(j) ==
  /\ isHistoryOpen
  /\ j \in DOMAIN savedSimulations
  /\ LET sim == savedSimulations[j] IN
     /\ image' = sim.imageBase64
     /\ analysis' = sim.analysis
     /\ simulation' = sim.simulation
     /\ marketData' = sim.marketData
     /\ currentScenario' = sim.scenario
     /\ editableTicker' = sim.ticker
  /\ appState' = "SIMULATED"
  /\ uiError' = ""
  /\ isHistoryOpen' = FALSE
  /\ UNCHANGED <<savedSimulations, inFlight>>
  /\ UNCHANGED <<serviceVars, historyVars, generatorVars>>

NextUI ==
  \/ \E img \in Images : handleImageSelect(img)
  \/ \E k \in DOMAIN inFlight, ok \in BOOLEAN, ticker \in Tickers :
       AnalyzeChartSettles(k, ok, ticker)
  \/ \E ticker \in Tickers : EditTicker(ticker)
  \/ handleManualIntelRefresh
  \/ \E k \in DOMAIN inFlight : MarketContextSettles(k)
  \/ \E scenario \in Scenarios : handleSimulate(scenario)
  \/ \E k \in DOMAIN inFlight, ok \in BOOLEAN : SimulationSettles(k, ok)
  \/ OpenHistory
  \/ CloseHistory
  \/ \E j \in DOMAIN savedSimulations : handleLoadSimulation(j)

\* the App driven by user events and by the settlements of its service calls
SpecUI == InitUI /\ [][NextUI]_vars

\* ------------------------------------------------ the saved-simulation history
\* entries handleSaveSimulation keeps
HistoryLimit == 10
\* saves, deletions and backtest runs of one session
MaxHistoryOps == 2

\* a history that handleSaveSimulation has filled
FullHistory ==
  [k \in 1..HistoryLimit |->
     SavedSimulation(k, 1, "TICK", "BASELINE_PREDICTION", "none")]

\* contents of localStorage['chartWargame_history'] found at mount
HistoriesAtMount == StoredHistories \cup {FullHistory}

InitHistory ==
  /\ InitService({"pipeline"}, {"returns"})
  /\ Len(models) = 1
  /\ \E h \in HistoriesAtMount : UiMounted(h)

\* crypto.randomUUID(): an id no entry has had
randomUUID == HistoryLimit + historyOps + 1

\* the save button of the oracle report; handleSaveSimulation. stored: whether
\* localStorage.setItem returned rather than threw
handleSaveSimulation(stored) ==
  /\ ResultsShown /\ simulation # 0
  /\ historyOps < MaxHistoryOps
  /\ historyOps' = historyOps + 1
  /\ IF simulation = 0 \/ analysis = NoAnalysis \/ image = 0
       THEN UNCHANGED savedSimulations
       ELSE LET newSave ==
                  [id |-> randomUUID, imageBase64 |-> image,
                   ticker |-> IF editableTicker # "" THEN editableTicker
                                                     ELSE analysis.ticker,
                   scenario |-> currentScenario, analysis |-> analysis,
                   simulation |-> simulation, marketData |-> marketData,
                   backtest |-> "none"]
                added == <<newSave>> \o savedSimulations
                updatedHistory ==
                  IF Len(added) > HistoryLimit
                    THEN SubSeq(added, 1, Len(added) - 1)
                    ELSE added
            IN savedSimulations' =
                 IF stored THEN updatedHistory ELSE savedSimulations
  /\ UNCHANGED <<appState, image, analysis, marketData, simulation,
                 editableTicker, currentScenario, uiError, isHistoryOpen,
                 inFlight, backtestModalOpen, selectedSimulationForBacktest,
                 backtestInFlight>>
  /\ UNCHANGED <<serviceVars, generatorVars>>

\* HistoryDrawer: the delete button of an entry; handleDeleteSimulation
handleDeleteSimulation(id) ==
  /\ isHistoryOpen
  /\ \E j \in DOMAIN savedSimulations : savedSimulations[j].id = id
  /\ historyOps < MaxHistoryOps
  /\ historyOps' = historyOps + 1
  /\ LET Keep(sim) == sim.id # id
     IN savedSimulations' = SelectSeq(savedSimulations, Keep)
  /\ UNCHANGED <<appState, image, analysis, marketData, simulation,
                 editableTicker, currentScenario, uiError, isHistoryOpen,
                 inFlight, backtestModalOpen, selectedSimulationForBacktest,
                 backtestInFlight>>
  /\ UNCHANGED <<serviceVars, generatorVars>>

\* HistoryDrawer: the reality-check button of an entry; handleOpenBacktest
handleOpenBacktest(j) ==
  /\ isHistoryOpen
  /\ j \in DOMAIN savedSimulations
  /\ selectedSimulationForBacktest' = savedSimulations[j]
  /\ backtestModalOpen' = TRUE
  /\ isHistoryOpen' = FALSE
  /\ UNCHANGED <<appState, image, analysis, marketData, simulation,
                 editableTicker, currentScenario, uiError, savedSimulations,
                 inFlight, backtestInFlight, historyOps>>
  /\ UNCHANGED <<serviceVars, generatorVars>>

\* BacktestModal: the close button; onClose
CloseBacktest ==
  /\ backtestModalOpen
  /\ backtestModalOpen' = FALSE
  /\ UNCHANGED <<appState, image, analysis, marketData, simulation,
                 editableTicker, currentScenario, uiError, savedSimulations,
                 isHistoryOpen, inFlight, selectedSimulationForBacktest,
                 backtestInFlight, historyOps>>
  /\ UNCHANGED <<serviceVars, generatorVars>>

\* BacktestModal.runBacktest up to its await: a proof image is chosen and the
\* button, disabled while isAnalyzing, is clicked. The onComplete the rest of
\* runBacktest calls is the handleBacktestComplete of the render that is
\* current now, with that render's savedSimulations and selection.
runBacktest ==
  /\ backtestModalOpen
  /\ backtestInFlight = NoClosure
  /\ historyOps < MaxHistoryOps
  /\ historyOps' = historyOps + 1
  /\ backtestInFlight' =
       [selectedSimulationForBacktest |-> selectedSimulationForBacktest,
        savedSimulations |-> savedSimulations]
  /\ UNCHANGED <<appState, image, analysis, marketData, simulation,
                 editableTicker, currentScenario, uiError, savedSimulations,
                 isHistoryOpen, inFlight, backtestModalOpen,
                 selectedSimulationForBacktest>>
  /\ UNCHANGED <<serviceVars, generatorVars>>

\* handleBacktestComplete(result) of the render `closure` was made in: the
\* history it sets
handleBacktestComplete(closure, backtestResult) ==
  [k \in DOMAIN closure.savedSimulations |->
     IF closure.savedSimulations[k].id
          = closure.selectedSimulationForBacktest.id
       THEN [closure.savedSimulations[k] EXCEPT !.backtest = backtestResult]
       ELSE closure.savedSimulations[k]]

\* calculateBacktestScore settles; the rest of runBacktest. stored: whether
\* localStorage.setItem returned rather than threw
BacktestSettles(ok, stored) ==
  /\ backtestInFlight # NoClosure
  /\ backtestInFlight' = NoClosure
  /\ IF ok
       THEN /\ savedSimulations' =
                 handleBacktestComplete(backtestInFlight, "scored")
            /\ IF stored
                 THEN backtestModalOpen' = FALSE /\ isHistoryOpen' = TRUE
                 ELSE UNCHANGED <<backtestModalOpen, isHistoryOpen>>
       ELSE UNCHANGED <<savedSimulations, backtestModalOpen, isHistoryOpen>>
  /\ UNCHANGED <<appState, image, analysis, marketData, simulation,
                 editableTicker, currentScenario, uiError, inFlight,
                 selectedSimulationForBacktest, historyOps>>
  /\ UNCHANGED <<serviceVars, generatorVars>>

NextHistory ==
  \/ OpenHistory
  \/ CloseHistory
  \/ \E j \in DOMAIN savedSimulations : handleLoadSimulation(j)
  \/ \E stored \in BOOLEAN : handleSaveSimulation(stored)
  \/ \E id \in 1..(HistoryLimit + MaxHistoryOps) : handleDeleteSimulation(id)
  \/ \E j \in DOMAIN savedSimulations : handleOpenBacktest(j)
  \/ CloseBacktest
  \/ runBacktest
  \/ \E ok \in BOOLEAN, stored \in BOOLEAN : BacktestSettles(ok, stored)

\* the App driven by the history drawer, the save button and the backtest modal
SpecHistory == InitHistory /\ [][NextHistory]_vars

\* ------------------------------- callWithRetry of the single-model variant
\* geminiService.ts, second half: one model, no pipeline. The invocation is
\* held in pc, retries, delay, lastFail, trace and outcome.
DefaultRetries == 10
DefaultDelay == 5000
LinearStep == 2000
JitterRange == 1000

\* the one model of the variant
SingleModel == "single-model"

\* retries arguments of the invocations examined
RetryBudgets == {0, 1, DefaultRetries}

\* outcomes of Math.floor(Math.random() * 1000) examined
Jitters == {0, JitterRange - 1}

\* error.message of a rejection of fn
RetryMessages ==
  { {}, {"429"}, {"quota"}, {"RESOURCE_EXHAUSTED"}, {"API Key"}, {"API key"},
    {"API Key", "quota"} }

\* error.status of a rejection of fn (0 = undefined)
FnStatuses == {0, 429}

\* the rejection of fn at call c
FnError(c, msg, status) ==
  [kind |-> "endpoint", origin |-> c, at |-> 0, msg |-> msg, status |-> status]

\* new Error("AUTH FAILURE: Invalid or Missing API Key.")
AuthFailure ==
  [kind |-> "synthesized", origin |-> 0, at |-> 0, msg |-> {"AUTH FAILURE"},
   status |-> 0]

\* new Error("NETWORK JAMMED: The API is extremely busy. ...")
NetworkJammed ==
  [kind |-> "synthesized", origin |-> 0, at |-> 0, msg |-> {"NETWORK JAMMED"},
   status |-> 0]

\* callWithRetry: isRateLimit
isRateLimit(msg, status) ==
  \/ status = 429
  \/ includes(msg, "429")
  \/ includes(msg, "quota")
  \/ includes(msg, "RESOURCE_EXHAUSTED")

\* the pipeline's and the App's variables, which the variant does not have
unusedByRetry ==
  <<models, onUpdate, i, awaited, pending, timedOut, lateOk, callLog, requests,
    lastError, caught, result, op, payload, returned, uiVars, generatorVars>>

\* endpoint calls made so far
FnCalls == Len(SelectSeq(trace, LAMBDA e : e.ev = "call"))

\* callWithRetry(fn, R): fn has been called and has not settled
InitRetry ==
  /\ models = <<>>
  /\ onUpdate = "absent"
  /\ op = "callWithRetry"
  /\ pc = "call"
  /\ i = 0
  /\ retries \in RetryBudgets
  /\ delay = DefaultDelay
  /\ awaited = 0
  /\ pending = {}
  /\ timedOut = {}
  /\ lateOk = {}
  /\ callLog = <<>>
  /\ requests = <<>>
  /\ lastFail = NoError
  /\ lastError = NoError
  /\ caught = <<>>
  /\ result = NoValue
  /\ payload = NoBody
  /\ trace = <<CallEvent(1, SingleModel)>>
  /\ outcome = Pending
  /\ returned = NotReturned
  /\ UiMounted(<<>>)
  /\ GeneratorIdle

\* fn resolves: return await fn()
FnResolves ==
  /\ pc = "call"
  /\ pc' = "done"
  /\ outcome' = Resolved([call |-> FnCalls, model_used |-> ""])
  /\ UNCHANGED <<retries, delay, lastFail, trace>>
  /\ UNCHANGED unusedByRetry

\* fn rejects; the catch block up to `await wait(nextDelay)` or its throw.
\* retries and delay take the arguments of the recursive call.
FnRejects(msg, status, jitter) ==
  /\ pc = "call"
  /\ lastFail' = FnError(FnCalls, msg, status)
  /\ IF isRateLimit(msg, status) /\ retries > 0
       THEN LET nextDelay == delay + LinearStep + jitter IN
            /\ trace' = Append(trace, WaitEvent("cooldown", nextDelay))
            /\ retries' = retries - 1
            /\ delay' = nextDelay
            /\ pc' = "wait"
            /\ UNCHANGED outcome
       ELSE /\ outcome' =
                 IF includes(msg, "API Key") THEN Rejected(AuthFailure)
                 ELSE IF isRateLimit(msg, status) THEN Rejected(NetworkJammed)
                 ELSE Rejected(FnError(FnCalls, msg, status))
            /\ pc' = "done"
            /\ UNCHANGED <<retries, delay, trace>>
  /\ UNCHANGED unusedByRetry

\* the wait is over: callWithRetry(fn, retries - 1, nextDelay) calls fn
RetryAfterWait ==
  /\ pc = "wait"
  /\ pc' = "call"
  /\ trace' = Append(trace, CallEvent(FnCalls + 1, SingleModel))
  /\ UNCHANGED <<retries, delay, lastFail, outcome>>
  /\ UNCHANGED unusedByRetry

NextRetry ==
  \/ FnResolves
  \/ \E msg \in RetryMessages, status \in FnStatuses, jitter \in Jitters :
       FnRejects(msg, status, jitter)
  \/ RetryAfterWait

\* one invocation of callWithRetry of the single-model variant
SpecRetry == InitRetry /\ [][NextRetry]_vars

\* ------------------------------------------------ the offline-fallback variant
\* part_001: one model, callWithRetry with a deadline, and adapters that fall
\* back to locally generated results. The invocation is held in op, onUpdate,
\* pc, retries, delay, lastFail, trace, outcome (callWithRetry's promise) and
\* returned (the adapter's promise).
OfflineDelay == 2000
OfflineStep == 1000
OfflineTimeoutMs == 15000
OfflineFakeDelay == 1000
OfflineScore == 50

\* the retries argument each adapter passes to callWithRetry
AdapterRetries(a) == IF a = "fetchMarketContext" THEN 1 ELSE 2

\* error.message of a rejection of fn
OfflineMessages ==
  { {}, {"429"}, {"quota"}, {"per day"}, {"fetch failed"}, {"503"},
    {"503", "429"}, {"fetch failed", "per day"}, {"API key"} }

\* new Error(`TIMEOUT: ${context} took too long.`)
TookTooLong(c) ==
  [kind |-> "timeout", origin |-> c, at |-> OfflineTimeoutMs, msg |-> {"TIMEOUT"}]

\* new Error("QUOTA_EXHAUSTED")
QuotaExhausted ==
  [kind |-> "synthesized", origin |-> 0, at |-> 0, msg |-> {"QUOTA_EXHAUSTED"}]

\* variant: "per day" left out of the test
isQuotaExhaustedNoPerDay(msg) == includes(msg, "429") \/ includes(msg, "quota")

\* callWithRetry: isQuotaExhausted
isQuotaExhausted(msg) ==
  includes(msg, "429") \/ includes(msg, "quota") \/ includes(msg, "per day")

\* callWithRetry: isTransient
isTransient(msg) == includes(msg, "fetch failed") \/ includes(msg, "503")

\* onUpdate("API LIMIT HIT. ...")
ApiLimitEvent == [ev |-> "status", kind |-> "API LIMIT HIT", model |-> "", n |-> 0]

\* what the closure of adapter a returns when the endpoint answered
RemoteBody(a) ==
  CASE a = "analyzeChart" ->
         [NoBody EXCEPT !.shape = "ChartAnalysis", !.complete = TRUE]
    [] a = "runSimulation" ->
         [NoBody EXCEPT !.shape = "SimulationResult", !.complete = TRUE,
                        !.candles = 10]
    [] a = "calculateBacktestScore" ->
         [NoBody EXCEPT !.shape = "BacktestResult", !.complete = TRUE,
                        !.score = 80]
    [] a = "fetchMarketContext" ->
         [NoBody EXCEPT !.shape = "MarketData", !.complete = TRUE,
                        !.summary = "line", !.headlines = 3]

\* generateOfflineAnalysis(), generateOfflineSimulation(...), the neutral
\* score of calculateBacktestScore and the placeholder of fetchMarketContext
OfflineBody(a) ==
  CASE a = "analyzeChart" ->
         [NoBody EXCEPT !.shape = "ChartAnalysis", !.complete = TRUE,
                        !.summary = "NETWORK SEVERED"]
    [] a = "runSimulation" ->
         [NoBody EXCEPT !.shape = "SimulationResult", !.complete = TRUE,
                        !.candles = 10, !.summary = "OFFLINE PROTOCOL ACTIVE"]
    [] a = "calculateBacktestScore" ->
         [NoBody EXCEPT !.shape = "BacktestResult", !.complete = TRUE,
                        !.score = OfflineScore, !.summary = "OFFLINE"]
    [] a = "fetchMarketContext" ->
         [NoBody EXCEPT !.shape = "MarketData", !.complete = TRUE,
                        !.summary = "OFFLINE", !.headlines = 1]

\* the pipeline's and the App's variables, which the variant does not have
unusedByOffline ==
  <<models, i, awaited, pending, timedOut, lateOk, callLog, requests,
    lastError, caught, result, payload, uiVars, generatorVars>>

\* an adapter has called callWithRetry, which has called fn
InitOffline ==
  /\ models = <<>>
  /\ onUpdate \in {"absent", "returns"}
  /\ op \in Adapters
  /\ pc = "call"
  /\ i = 0
  /\ retries = AdapterRetries(op)
  /\ delay = OfflineDelay
  /\ awaited = 0
  /\ pending = {}
  /\ timedOut = {}
  /\ lateOk = {}
  /\ callLog = <<>>
  /\ requests = <<>>
  /\ lastFail = NoError
  /\ lastError = NoError
  /\ caught = <<>>
  /\ result = NoValue
  /\ payload = NoBody
  /\ trace = <<CallEvent(1, SingleModel)>>
  /\ outcome = Pending
  /\ returned = NotReturned
  /\ UiMounted(<<>>)
  /\ GeneratorIdle

\* the trace with a status appended when the caller passed a callback
Notify(tr, event) == IF onUpdate = "absent" THEN tr ELSE Append(tr, event)

\* fn resolves before the deadline; callWithRetry and the adapter return
OfflineFnResolves ==
  /\ pc = "call"
  /\ pc' = "done"
  /\ outcome' = Resolved([call |-> FnCalls, model_used |-> ""])
  /\ returned' = Returns([call |-> FnCalls, model_used |-> ""], RemoteBody(op))
  /\ UNCHANGED <<onUpdate, op, retries, delay, lastFail, trace>>
  /\ UNCHANGED unusedByOffline

\* the catch block of callWithRetry for `error`, up to its wait or its throw,
\* and then the catch block of the adapter, up to its wait or its return
OfflineCatch(error) ==
  /\ lastFail' = error
  /\ IF isQuotaExhausted(error.msg)
       THEN /\ outcome' = Rejected(QuotaExhausted)
            /\ UNCHANGED <<retries, delay>>
            /\ IF op \in {"analyzeChart", "runSimulation"}
                 THEN /\ trace' =
                           Append(Notify(trace, ApiLimitEvent),
                                  WaitEvent("offline", OfflineFakeDelay))
                      /\ pc' = "offline"
                      /\ UNCHANGED returned
                 ELSE /\ returned' = Returns(NoValue, OfflineBody(op))
                      /\ pc' = "done"
                      /\ UNCHANGED trace
       ELSE IF isTransient(error.msg) /\ retries > 0
       THEN LET nextDelay == delay + OfflineStep IN
            /\ trace' = Append(Notify(trace, RetryingEvent(retries)),
                                WaitEvent("retry", nextDelay))
            /\ retries' = retries - 1
            /\ delay' = nextDelay
            /\ pc' = "wait"
            /\ UNCHANGED <<outcome, returned>>
       ELSE /\ outcome' = Rejected(error)
            /\ returned' = IF op = "fetchMarketContext"
                              THEN Returns(NoValue, OfflineBody(op))
                              ELSE Throws(error)
            /\ pc' = "done"
            /\ UNCHANGED <<retries, delay, trace>>
  /\ UNCHANGED <<onUpdate, op>>
  /\ UNCHANGED unusedByOffline

\* fn rejects before the deadline
OfflineFnRejects(msg) ==
  /\ pc = "call"
  /\ OfflineCatch(EndpointError(FnCalls, msg, 0))

\* the deadline of withTimeout fires before fn settles
OfflineDeadlineFires ==
  /\ pc = "call"
  /\ OfflineCatch(TookTooLong(FnCalls))

\* the wait is over: callWithRetry(fn, retries - 1, nextDelay, ...) calls fn
OfflineRetryAfterWait ==
  /\ pc = "wait"
  /\ pc' = "call"
  /\ trace' = Append(trace, CallEvent(FnCalls + 1, SingleModel))
  /\ UNCHANGED <<onUpdate, op, retries, delay, lastFail, outcome, returned>>
  /\ UNCHANGED unusedByOffline

\* wait(1000) is over: analyzeChart or runSimulation returns its generated
\* result
OfflineProtocolReturns ==
  /\ pc = "offline"
  /\ pc' = "done"
  /\ returned' = Returns(NoValue, OfflineBody(op))
  /\ UNCHANGED <<onUpdate, op, retries, delay, lastFail, outcome, trace>>
  /\ UNCHANGED unusedByOffline

NextOffline ==
  \/ OfflineFnResolves
  \/ \E msg \in OfflineMessages : OfflineFnRejects(msg)
  \/ OfflineDeadlineFires
  \/ OfflineRetryAfterWait
  \/ OfflineProtocolReturns

\* one invocation of an adapter of the offline-fallback variant
SpecOffline == InitOffline /\ [][NextOffline]_vars

\* -------------------------------------------------- generateOfflineSimulation
\* Prices are held in hundredths (0.5 is 50) and a value of Math.random() in
\* quarters (0.5 is 2); products are rounded down to a whole hundredth.
CandleCount == 10
\* length of the cycle of Math.random() values examined
MaxRandomPeriod == 4

\* lastPrice arguments: the default 100, and supports of 1.08 and 0.30
LastPrices == {100 * 100, 108, 30}

\* the markers a scenario text can contain
ScenarioTexts == SUBSET {"Hike", "Cut"}

\* values of Math.random(), in quarters
Draws == {0, 3}

\* the cycles of values Math.random() returns
RandomStreams == [1..MaxRandomPeriod -> Draws]

\* let drift = 0; if (... "Hike" ...) drift = -0.5; if (... "Cut" ...) drift = 0.5
DriftOf(scenario) ==
  LET afterHike ==
        IF includes(scenario, "Hike") \/ includes(scenario, "Recession")
          THEN 0 - 50 ELSE 0
  IN IF includes(scenario, "Cut") \/ includes(scenario, "Breakthrough")
       THEN 50 ELSE afterHike

Max(a, b) == IF a >= b THEN a ELSE b

\* the rest of the cycle after one call of Math.random()
NextRandom(stream) == Tail(stream) \o <<Head(stream)>>

\* the pipeline's and the App's variables, which the generator does not have
unusedByGenerator ==
  <<models, onUpdate, i, retries, delay, awaited, pending, timedOut, lateOk,
    callLog, requests, lastFail, lastError, caught, result, trace, outcome,
    op, payload, returned, uiVars>>

\* generateOfflineSimulation(lastPrice, scenario) before its loop
InitGenerator ==
  /\ models = <<>>
  /\ onUpdate = "absent"
  /\ op = "generateOfflineSimulation"
  /\ pc = "generate"
  /\ i = 0
  /\ retries = 0
  /\ delay = 0
  /\ awaited = 0
  /\ pending = {}
  /\ timedOut = {}
  /\ lateOk = {}
  /\ callLog = <<>>
  /\ requests = <<>>
  /\ lastFail = NoError
  /\ lastError = NoError
  /\ caught = <<>>
  /\ result = NoValue
  /\ payload = NoBody
  /\ trace = <<>>
  /\ outcome = Pending
  /\ returned = NotReturned
  /\ UiMounted(<<>>)
  /\ lastPrice \in LastPrices
  /\ \E scenario \in ScenarioTexts : drift = DriftOf(scenario)
  /\ currentClose = lastPrice
  /\ ghost_candles = <<>>
  /\ rng \in RandomStreams

\* one pass of the loop body: the candle pushed for the previous close prev
\* and the three values u, v, w of Math.random()
GhostCandle(day, prev, u, v, w) ==
  LET volatility == (prev * 2) \div 100
      change == ((u - 2) * volatility) \div 4 + drift
      open == prev
      close == open + change
  IN [day |-> day, open |-> open,
      high |-> Max(open, close) + (v * (volatility \div 2)) \div 4,
      low |-> Min(open, close) - (w * (volatility \div 2)) \div 4,
      close |-> close]

\* for (let i = 1; i <= 10; i++) { ... candles.push(...) }: one pass
GenerateCandle ==
  /\ pc = "generate"
  /\ Len(ghost_candles) < CandleCount
  /\ LET u == rng[1]
         v == rng[2]
         w == rng[3]
         candle == GhostCandle(Len(ghost_candles) + 1, currentClose, u, v, w)
     IN /\ ghost_candles' = Append(ghost_candles, candle)
        /\ currentClose' = candle.close
  /\ rng' = NextRandom(NextRandom(NextRandom(rng)))
  /\ UNCHANGED <<pc, lastPrice, drift>>
  /\ UNCHANGED unusedByGenerator

\* the loop is left: return { analysis, ghost_candles: candles }
ReturnSimulation ==
  /\ pc = "generate"
  /\ Len(ghost_candles) >= CandleCount
  /\ pc' = "returned"
  /\ UNCHANGED <<lastPrice, drift, currentClose, ghost_candles, rng>>
  /\ UNCHANGED unusedByGenerator

NextGenerator ==
  \/ GenerateCandle
  \/ ReturnSimulation

\* one call of generateOfflineSimulation
SpecGenerator == InitGenerator /\ [][NextGenerator]_vars

\* ------------------------------------------------------------ properties
\* lower-cased message of an error value
Lower(e) == toLowerCase(e.msg)

\* number of endpoint calls made to model
CallsTo(model) == Cardinality({c \in DOMAIN callLog : callLog[c] = model})

\* a caught failure of the rate-limited/overloaded class: switch-eligible, not fatal
RateLimitedEntry(e) == e.isRecoverableBySwitching /\ ~e.isFatal
RateLimitedAt(k) == RateLimitedEntry(caught[k])

\* the step is one in which executeWithModelPipeline catches an error
CatchStep == Len(caught') = Len(caught) + 1

\* the event is a same-model retry announcement or retry wait
IsRetryEvent(e) ==
  (e.ev = "status" /\ e.kind = "RETRYING") \/ (e.ev = "wait" /\ e.kind = "retry")

\* C1: once the attempt on model i ended with a Fatal error, no model behind i
\* has been or is called, no backup-engine status for a later model is emitted,
\* and the operation is rejected with that very error, not a synthesized one.
C1_FatalAborts ==
  \A k \in DOMAIN caught :
    caught[k].isFatal =>
      LET idx == IndexOf(caught[k].model) IN
      /\ k = Len(caught)
      /\ pc = "done"
      /\ outcome = Rejected(lastError)
      /\ isFatal(Lower(lastError))
      /\ lastError.kind # "synthesized"
      /\ \A c \in DOMAIN callLog : IndexOf(callLog[c]) <= idx
      /\ \A t \in DOMAIN trace :
           (trace[t].ev = "status" /\ trace[t].kind = "ENGAGING")
             => IndexOf(trace[t].model) <= idx

\* a fatal failure of the primary model of a two-model pipeline was caught
C1_Witness ==
  /\ Len(models) >= 2
  /\ Len(caught) = 1
  /\ caught[1].isFatal
  /\ caught[1].isRecoverableBySwitching
  /\ outcome.kind = "rejected"

\* C2: after an endpoint call fails with a Fatal error nothing more happens:
\* no further endpoint call, no retry wait, no RETRYING status, and the
\* operation is rejected with that error.
C2_FatalNeverRetried ==
  (lastFail.kind = "endpoint" /\ isFatal(Lower(lastFail))) =>
    /\ Len(callLog) = lastFail.origin
    /\ Len(trace) = lastFail.at
    /\ outcome = Rejected(lastFail)

\* C3: a rate-limited failure caught on a non-last index moves the loop to the
\* next index without settling the operation, every model behind the first is
\* called only after all earlier ones failed, and a resolved operation never
\* names a model whose attempt failed.
C3_RateLimitedSwitches ==
  /\ [][(CatchStep /\ RateLimitedEntry(caught'[Len(caught')]) /\ i < Len(models))
          => (i' = i + 1 /\ pc' = "loop" /\ outcome' = Pending)]_vars
  /\ [](\A c \in DOMAIN callLog : Len(caught) >= IndexOf(callLog[c]) - 1)
  /\ [](outcome.kind = "resolved" =>
          \A k \in DOMAIN caught : outcome.value.model_used # caught[k].model)

\* the primary failed rate-limited and the operation resolved on a later model
C3_Witness ==
  /\ outcome.kind = "resolved"
  /\ Len(caught) >= 1
  /\ RateLimitedAt(1)
  /\ outcome.value.model_used = models[2]

\* C4: when every model of the pipeline failed with a rate-limited error the
\* operation is rejected with the synthesized all-engines-failed error and
\* holds no result.
C4_AllRateLimitedExhausts ==
  (/\ Len(caught) = Len(models)
   /\ \A k \in DOMAIN caught : caught[k].model = models[k] /\ RateLimitedAt(k))
    => /\ outcome.kind = "rejected"
       /\ outcome.error = AllEnginesFailed(Lower(lastError))
       /\ outcome.value = NoValue
       /\ result = NoValue
       /\ pc = "done"

\* both models of a two-model pipeline failed rate-limited
C4_Witness ==
  /\ Len(models) = 2
  /\ Len(caught) = 2
  /\ RateLimitedAt(1)
  /\ RateLimitedAt(2)
  /\ outcome.kind = "rejected"

\* the last pipeline model failed with a non-fatal error
LastModelFailedNonFatal ==
  /\ Len(caught) >= 1
  /\ caught[Len(caught)].model = models[Len(models)]
  /\ ~caught[Len(caught)].isFatal

\* C5 as stated: every non-fatal failure of the last model ends in the
\* synthesized error, which differs from the model's own error.
C5_Original ==
  LastModelFailedNonFatal =>
    /\ outcome.kind = "rejected"
    /\ outcome.error.kind = "synthesized"
    /\ outcome.error # lastError

\* C5 amended: a non-fatal failure of the last model rejects the operation;
\* with the synthesized error (different from the model's own) when the message
\* is switch-eligible, with the model's own error unchanged otherwise.
C5_LastModelFailure ==
  LastModelFailedNonFatal =>
    /\ outcome.kind = "rejected"
    /\ pc = "done"
    /\ IF caught[Len(caught)].isRecoverableBySwitching
         THEN /\ outcome.error = AllEnginesFailed(Lower(lastError))
              /\ outcome.error # lastError
         ELSE outcome.error = lastError

\* the last model of a two-model pipeline ran out of retries on a deadline
C5_Witness ==
  /\ Len(models) = 2
  /\ LastModelFailedNonFatal
  /\ lastError.kind = "timeout"
  /\ outcome = Rejected(lastError)

\* C6: no model receives more than maxRetries + 1 endpoint calls and one
\* invocation makes at most (maxRetries + 1) * |pipeline| calls.
C6_RetryBound ==
  /\ \A k \in DOMAIN models : CallsTo(models[k]) <= InitialRetries + 1
  /\ Len(callLog) <= (InitialRetries + 1) * Len(models)

\* every model of a two-model pipeline was called maxRetries + 1 times
C6_Witness ==
  /\ Len(models) = 2
  /\ \A k \in DOMAIN models : CallsTo(models[k]) = InitialRetries + 1
  /\ pc = "done"

\* C7: after an endpoint call fails with a switch-eligible, non-fatal message
\* the same model is not called again and neither a RETRYING status nor a
\* retry wait follows.
C7_RateLimitedRethrownAtOnce ==
  (/\ lastFail.kind = "endpoint"
   /\ isRecoverableBySwitching(Lower(lastFail))
   /\ ~isFatal(Lower(lastFail))) =>
    /\ \A c \in DOMAIN callLog :
         c > lastFail.origin => callLog[c] # callLog[lastFail.origin]
    /\ \A t \in DOMAIN trace : t > lastFail.at => ~IsRetryEvent(trace[t])

\* C8: a resolved operation names in model_used a pipeline entry, namely the
\* model whose endpoint call produced the returned payload, whatever
\* model_used field the payload itself carried.
C8_ModelUsed ==
  outcome.kind = "resolved" =>
    /\ \E k \in DOMAIN models : models[k] = outcome.value.model_used
    /\ outcome.value.call = result.call
    /\ outcome.value.call \in DOMAIN callLog
    /\ outcome.value.model_used = callLog[outcome.value.call]
    /\ \A k \in DOMAIN caught : caught[k].model # outcome.value.model_used

\* the payload returned by a fallback model carried another model_used
C8_Witness ==
  /\ outcome.kind = "resolved"
  /\ result.model_used = "model-A"
  /\ outcome.value.model_used = "model-B"

\* C9: when the deadline of the awaited call fires the attempt fails with the
\* timeout error of that call, and the payload of a call that lost against its
\* deadline is never the result of the operation.
C9_LateSuccessDiscarded ==
  /\ [][timedOut' # timedOut
          => /\ timedOut' = timedOut \cup {awaited}
             /\ lastFail' = TimeoutError(awaited, Len(trace))]_vars
  /\ [](result.call \notin timedOut /\ outcome.value.call \notin timedOut)

\* a call succeeded after its deadline and the operation settled all the same
C9_Witness ==
  /\ lateOk \cap timedOut # {}
  /\ outcome.kind = "resolved"
  /\ \E c \in lateOk : callLog[c] = outcome.value.model_used

\* C10: a deadline expiry with a retry left leads to the retry wait and then
\* to a call of the same model; without a retry left the orchestrator catches
\* the timeout error and moves to the next model or rejects with it.
C10_TimeoutIsTransient ==
  /\ [][timedOut' # timedOut =>
          IF retries > 0
            THEN /\ pc' = "retry_wait"
                 /\ UNCHANGED <<i, caught, outcome, callLog, requests>>
            ELSE /\ CatchStep
                 /\ lastError' = TimeoutError(awaited, Len(trace))
                 /\ IF i < Len(models)
                      THEN i' = i + 1 /\ pc' = "loop" /\ outcome' = Pending
                      ELSE outcome' = Rejected(lastError')]_vars
  /\ [][(pc = "retry_wait" /\ pc' # pc) =>
          /\ callLog' = Append(callLog, models[i])
          /\ retries' = retries - 1
          /\ i' = i]_vars

\* the primary timed out twice and the orchestrator went on to the next model
C10_Witness ==
  /\ Len(models) >= 2
  /\ Cardinality({c \in timedOut : callLog[c] = models[1]}) = InitialRetries + 1
  /\ i = 2
  /\ Len(caught) = 1

\* C11: a status callback that throws is harmless: every status emission is
\* followed by the wait that follows it when the callback returns, and no
\* error raised by the callback is caught by the orchestrator or becomes the
\* outcome of the operation.
C11_ThrowingSinkHarmless ==
  /\ lastError.kind # "callback"
  /\ outcome.error.kind # "callback"
  /\ \A t \in DOMAIN trace :
       trace[t].ev = "status" => (t < Len(trace) /\ trace[t + 1].ev = "wait")

\* the adapters that return the pipeline's promise as it is
JsonAdapters == Adapters \ {"fetchMarketContext"}

\* C12: fetchMarketContext never rejects; when the pipeline rejected, with
\* whatever error, it resolves with the placeholder: the unavailable summary,
\* no headlines, no sources.
C12_MarketContextNeverRejects ==
  op = "fetchMarketContext" =>
    /\ returned.kind # "rejected"
    /\ (pc = "returned" /\ outcome.kind = "rejected") =>
         /\ returned.kind = "resolved"
         /\ returned.body.summary = "REAL-TIME DATA UNAVAILABLE."
         /\ returned.body.headlines = 0
         /\ returned.body.sources = 0

\* fetchMarketContext returned although the pipeline aborted on a fatal error
C12_Witness ==
  /\ op = "fetchMarketContext"
  /\ outcome.kind = "rejected"
  /\ isFatal(Lower(outcome.error))
  /\ returned.kind = "resolved"

\* C13: analyzeChart, runSimulation and calculateBacktestScore reject with the
\* pipeline's error unchanged whenever the pipeline rejected, and resolve only
\* with the value the pipeline resolved with, which is the payload of an
\* endpoint call of this invocation that succeeded within its deadline.
C13_AdaptersPropagate ==
  (op \in JsonAdapters /\ pc = "returned") =>
    IF outcome.kind = "rejected"
      THEN returned = Throws(outcome.error)
      ELSE /\ returned = Returns(outcome.value, payload)
           /\ returned.value.call \in DOMAIN callLog
           /\ returned.value.call \notin timedOut
           /\ returned.body.shape # "none"

\* calculateBacktestScore rejected after every model of a two-model pipeline
\* failed with an error that is neither fatal nor switch-eligible
C13_Witness ==
  /\ op = "calculateBacktestScore"
  /\ Len(models) = 2
  /\ Len(caught) = 2
  /\ ~caught[2].isFatal /\ ~caught[2].isRecoverableBySwitching
  /\ lastError.kind = "endpoint"
  /\ returned = Throws(lastError)

\* C14: when an operation called with a status callback resolves with the
\* model of index j > 1, a backup-engine status naming that model lies in the
\* trace before every call to it and after every call to the model before it.
C14_BackupStatusObserved ==
  (returned.kind = "resolved" /\ onUpdate # "absent"
     /\ IndexOf(returned.value.model_used) > 1) =>
    LET j == IndexOf(returned.value.model_used) IN
    \E t \in DOMAIN trace :
      /\ trace[t].ev = "status"
      /\ trace[t].kind = "ENGAGING"
      /\ trace[t].model = models[j]
      /\ \A u \in DOMAIN trace :
           trace[u].ev = "call" =>
             /\ trace[u].model = models[j] => u > t
             /\ trace[u].model = models[j - 1] => u < t

\* analyzeChart with a callback resolved on the second model
C14_Witness ==
  /\ op = "analyzeChart"
  /\ onUpdate = "returns"
  /\ returned.kind = "resolved"
  /\ returned.value.model_used = "model-B"
  /\ caught[1].isRecoverableBySwitching

\* C15: between two endpoint calls to different models the cooldown wait
\* always takes place, with or without a status callback.
C15_CooldownOnEverySwitch ==
  \A t \in DOMAIN trace : \A u \in DOMAIN trace :
    (t < u /\ trace[t].ev = "call" /\ trace[u].ev = "call"
       /\ trace[t].model # trace[u].model) =>
      \E w \in DOMAIN trace :
        t < w /\ w < u /\ trace[w] = WaitEvent("cooldown", CooldownMs)

\* C17: analyzeChart, runSimulation and calculateBacktestScore never resolve
\* with an object that lacks a required field of their schema.
C17_MissingFieldIsFailure ==
  (op \in JsonAdapters /\ returned.kind = "resolved") => returned.body.complete

\* C18: a resolved runSimulation holds exactly 10 ghost candles.
C18_ExactlyTenCandles ==
  (op = "runSimulation" /\ returned.kind = "resolved" /\ returned.body.complete)
    => returned.body.candles = 10

\* C19: a resolved calculateBacktestScore holds a score within 0..100.
C19_ScoreInRange ==
  (op = "calculateBacktestScore" /\ returned.kind = "resolved"
     /\ returned.body.complete)
    => (returned.body.score >= 0 /\ returned.body.score <= 100)

\* C20 as stated: every value fetchMarketContext resolves with carries a
\* model_used that names a pipeline model.
C20_Original ==
  (op = "fetchMarketContext" /\ returned.kind = "resolved") =>
    \E k \in DOMAIN models : models[k] = returned.value.model_used

\* C20 amended: a value fetchMarketContext resolves with after the pipeline
\* resolved carries the model_used of the pipeline model whose call succeeded
\* in this invocation; the placeholder it resolves with after the pipeline
\* rejected carries no model_used.
C20_MarketModelUsed ==
  (op = "fetchMarketContext" /\ returned.kind = "resolved") =>
    IF outcome.kind = "resolved"
      THEN /\ \E k \in DOMAIN models : models[k] = returned.value.model_used
           /\ returned.value.call \in DOMAIN callLog
           /\ returned.value.call \notin timedOut
           /\ callLog[returned.value.call] = returned.value.model_used
           /\ \A k \in DOMAIN caught : caught[k].model # returned.value.model_used
      ELSE /\ returned.value.model_used = ""
           /\ returned.body = MarketPlaceholder

\* fetchMarketContext resolved from the fallback model after the primary failed
C20_Witness ==
  /\ op = "fetchMarketContext"
  /\ returned.kind = "resolved"
  /\ outcome.kind = "resolved"
  /\ Len(caught) = 1
  /\ returned.value.model_used = "model-B"

\* C21: the models are called in pipeline order: the first call goes to the
\* first model, consecutive calls go to the same or to the next index, the
\* awaited call is one to the model of the current index, no call goes to an
\* index the loop has not reached, and a call to the model of index k > 1 is
\* made only after the attempt on the model of index k - 1 was caught as a
\* failure that is not fatal.
C21_PipelineOrder ==
  /\ (callLog # <<>> => callLog[1] = models[1])
  /\ \A c \in DOMAIN callLog :
       LET k == IndexOf(callLog[c]) IN
       /\ k >= 1 /\ k <= i
       /\ c > 1 => (k = IndexOf(callLog[c - 1]) \/ k = IndexOf(callLog[c - 1]) + 1)
       /\ k > 1 => /\ Len(caught) >= k - 1
                   /\ caught[k - 1].model = models[k - 1]
                   /\ ~caught[k - 1].isFatal
  /\ pc = "await" => callLog[awaited] = models[i]
  /\ \A k \in DOMAIN caught : IndexOf(caught[k].model) = k

\* the primary was called twice and the second model is being called
C21_Witness ==
  /\ Len(callLog) = 3
  /\ callLog = <<models[1], models[1], models[2]>>
  /\ pc = "await"

\* the three terminal states of an invocation
Succeeded == outcome.kind = "resolved"
FatalAbort ==
  /\ outcome.kind = "rejected"
  /\ caught # <<>> /\ caught[Len(caught)].isFatal
AllExhausted ==
  /\ outcome.kind = "rejected"
  /\ Len(caught) = Len(models)
  /\ ~caught[Len(caught)].isFatal

\* C22: when every wait elapses and every awaited call settles or hits its
\* deadline, the invocation reaches a terminal state; there it is in exactly
\* one of Succeeded, FatalAbort and AllExhausted, and stays there with no
\* further endpoint call, status or wait; on the way every same-model retry
\* consumes one of the retries and the loop index only grows, within the
\* pipeline.
C22_Terminates ==
  /\ <>(pc = "done")
  /\ [](pc = "done" <=> outcome.kind # "pending")
  /\ [](pc = "done" =>
          \/ (Succeeded /\ ~FatalAbort /\ ~AllExhausted)
          \/ (~Succeeded /\ FatalAbort /\ ~AllExhausted)
          \/ (~Succeeded /\ ~FatalAbort /\ AllExhausted))
  /\ [][pc = "done" =>
          /\ pc' = "done"
          /\ UNCHANGED <<outcome, callLog, requests, trace, i, caught, result>>]_vars
  /\ [][(pc = "retry_wait" /\ pc' = "await") =>
          (retries' = retries - 1 /\ retries' >= 0)]_vars
  /\ [][i' >= i /\ i' <= Len(models)]_vars

\* both models of a two-model pipeline used up their retry and the invocation
\* ended
C22_Witness ==
  /\ pc = "done"
  /\ Len(models) = 2
  /\ Len(callLog) = 2 * (InitialRetries + 1)
  /\ AllExhausted

\* a caught failure of the Unknown class: neither fatal nor switch-eligible
UnknownEntry(e) == ~e.isFatal /\ ~e.isRecoverableBySwitching

\* C23: an Unknown failure caught on a non-last index moves the loop to the
\* next index and leaves the operation unsettled; the operation is never
\* rejected with such a failure as its last one; and once it is caught on
\* index k a call to the model of index k + 1 follows.
C23_UnknownSwitches ==
  /\ [][(CatchStep /\ UnknownEntry(caught'[Len(caught')]) /\ i < Len(models))
          => (i' = i + 1 /\ pc' = "loop" /\ outcome' = Pending)]_vars
  /\ [](\A k \in DOMAIN caught :
          (UnknownEntry(caught[k]) /\ k < Len(models) /\ outcome.kind = "rejected")
            => Len(caught) > k)
  /\ \A k \in 1..(MaxModels - 1) :
       (Len(caught) = k /\ k < Len(models) /\ UnknownEntry(caught[k]))
         ~> (CallsTo(ModelNames[k + 1]) >= 1)

\* the primary answered with an unrecognised message twice and the second
\* model is being called
C23_Witness ==
  /\ Len(caught) = 1
  /\ UnknownEntry(caught[1])
  /\ lastError.kind = "endpoint"
  /\ lastError.msg = {}
  /\ i = 2
  /\ pc = "await"

\* positions of the RETRYING statuses in the trace
RetryStatuses ==
  {t \in DOMAIN trace : trace[t].ev = "status" /\ trace[t].kind = "RETRYING"}

\* endpoint calls that repeat the model of the call before them
SameModelRetries == {c \in DOMAIN callLog : c > 1 /\ callLog[c] = callLog[c - 1]}

\* with a status callback, every retry wait directly follows one RETRYING
\* status and every RETRYING status is directly followed by the retry wait,
\* so there is one status per same-model retry, counting the retry being
\* waited for
OneStatusPerRetry ==
  onUpdate = "returns" =>
    /\ \A t \in DOMAIN trace :
         (trace[t].ev = "wait" /\ trace[t].kind = "retry")
           => (t > 1 /\ t - 1 \in RetryStatuses)
    /\ \A t \in RetryStatuses :
         t < Len(trace) /\ trace[t + 1].ev = "wait" /\ trace[t + 1].kind = "retry"
    /\ Cardinality(RetryStatuses)
         = Cardinality(SameModelRetries) + (IF pc = "retry_wait" THEN 1 ELSE 0)

\* the events a step appends to the trace
NewEvents == (Len(trace) + 1)..Len(trace')

\* C24 as stated: one RETRYING status per same-model retry, and the count it
\* reports is the number of retries left once the announced retry is taken.
C24_Original ==
  /\ []OneStatusPerRetry
  /\ [][\A t \in NewEvents :
          (trace'[t].ev = "status" /\ trace'[t].kind = "RETRYING")
            => trace'[t].n = retries - 1]_vars

\* C24 amended: one RETRYING status per same-model retry, and the count it
\* reports is the value of the retry counter when the failure is caught,
\* before the decrement: it includes the announced retry and is never 0.
C24_RetryStatus ==
  /\ []OneStatusPerRetry
  /\ [][\A t \in NewEvents :
          (trace'[t].ev = "status" /\ trace'[t].kind = "RETRYING")
            => (trace'[t].n = retries /\ retries' = retries)]_vars
  /\ [](\A t \in RetryStatuses : trace[t].n >= 1 /\ trace[t].n <= InitialRetries)

\* a retry was announced to the callback and the same model was called again
C24_Witness ==
  /\ onUpdate = "returns"
  /\ RetryStatuses # {}
  /\ Len(callLog) = 2
  /\ 2 \in SameModelRetries

\* the model being attempted at position t of the trace: that of the last
\* endpoint call before t
ModelAt(t) ==
  LET calls == {u \in 1..t : trace[u].ev = "call"} IN
  IF calls = {} THEN ""
  ELSE trace[CHOOSE u \in calls : \A v \in calls : v <= u].model

\* positions of the retry waits in the trace
RetryWaits == {t \in DOMAIN trace : trace[t].ev = "wait" /\ trace[t].kind = "retry"}

\* the retry wait at position t is the k-th one of its model
RetryOrdinal(t) ==
  Cardinality({u \in RetryWaits : u <= t /\ ModelAt(u) = ModelAt(t)})

\* C25: the wait before the k-th retry of a model lasts 1500 + 1000 * (k - 1)
\* ms, counting k per model, and every attempt on a model starts with the
\* full retry counter and the initial delay.
C25_BackoffPerModel ==
  /\ [](\A t \in RetryWaits :
          trace[t].n = InitialDelay + DelayStep * (RetryOrdinal(t) - 1))
  /\ [][(pc \in {"loop", "cooldown"} /\ pc' = "await")
          => (retries' = InitialRetries /\ delay' = InitialDelay)]_vars
  /\ [][(pc = "retry_wait" /\ pc' = "await") => delay' = delay + DelayStep]_vars

\* both models of a two-model pipeline were retried once
C25_Witness ==
  /\ Len(models) = 2
  /\ Cardinality(RetryWaits) = 2
  /\ \E t, u \in RetryWaits : ModelAt(t) = models[1] /\ ModelAt(u) = models[2]

\* a request with its model identifier blanked
Payload(req) == [req EXCEPT !.model = ""]

\* C26: every endpoint call of an invocation carries one request, made out to
\* the model the call goes to, and any two requests of the invocation are
\* equal in prompt, image data, schema, tool flag and temperature, whatever
\* failed, was retried or was answered before.
C26_SamePayload ==
  (op \in Adapters) =>
    /\ Len(requests) = Len(callLog)
    /\ \A c \in DOMAIN requests : requests[c].model = callLog[c]
    /\ \A c \in DOMAIN requests : \A d \in DOMAIN requests :
         Payload(requests[c]) = Payload(requests[d])

\* runSimulation issued its third request, to the second model, after a
\* failed call, a retry and a switch
C26_Witness ==
  /\ op = "runSimulation"
  /\ Len(requests) = 3
  /\ requests[1].model = models[1]
  /\ requests[3].model = models[2]
  /\ lastFail.kind = "endpoint"
  /\ Len(caught) = 1

\* runSimulation calls of the App that have not settled
SimulationsInFlight == {k \in DOMAIN inFlight : inFlight[k].kind = "runSimulation"}

\* C27: the App never has two runSimulation calls in flight at the same time.
C27_OneSimulationInFlight == Cardinality(SimulationsInFlight) <= 1

\* the error's lower-cased message holds a Fatal marker and a switch marker
MatchesBothClasses(e) ==
  /\ Lower(e) \cap {"api key", "permission denied"} # {}
  /\ Lower(e) \cap {"429", "quota", "resource_exhausted", "503",
                    "service unavailable", "fetch failed", "overloaded"} # {}

\* C28: when the orchestrator has caught an error whose message matches both
\* a Fatal and a switch-eligible marker, on whatever index, the operation is
\* over, rejected with that very error and not with the synthesized one, and
\* no model behind the failing one is called or announced.
C28_FatalWinsOverSwitch ==
  MatchesBothClasses(lastError) =>
    LET idx == IndexOf(caught[Len(caught)].model) IN
    /\ pc = "done"
    /\ outcome = Rejected(lastError)
    /\ outcome.error.kind # "synthesized"
    /\ idx = i
    /\ \A c \in DOMAIN callLog : IndexOf(callLog[c]) <= idx
    /\ \A t \in DOMAIN trace :
         (trace[t].ev = "status" /\ trace[t].kind = "ENGAGING")
           => IndexOf(trace[t].model) <= idx

\* the message matched both classes on the last index of a two-model pipeline
C28_Witness ==
  /\ Len(models) = 2
  /\ Len(caught) = 2
  /\ MatchesBothClasses(lastError)
  /\ lastError.msg = {"API key", "429"}

\* C29 as stated: at most one endpoint call of an invocation is outstanding.
C29_Original == Cardinality(pending) <= 1

\* C29 amended: at most one endpoint call is awaited, the newest one; every
\* other outstanding call is one abandoned by its deadline, it may still be
\* in flight while later calls are issued, and its settlement changes nothing
\* of the invocation.
C29_AbandonedCallsInert ==
  /\ [](pc = "await" => (awaited = Len(callLog) /\ awaited \in pending))
  /\ [](\A c \in pending : c \in timedOut \/ (pc = "await" /\ c = awaited))
  /\ [][\A c \in pending \ pending' :
          c \in timedOut =>
            UNCHANGED <<pc, i, retries, delay, awaited, timedOut, callLog,
                        requests, lastFail, lastError, caught, result, trace,
                        outcome>>]_vars

\* the retry call is awaited while the call abandoned before it is in flight
C29_Witness ==
  /\ pc = "await"
  /\ Cardinality(pending) = 2
  /\ 1 \in timedOut \cap pending
  /\ awaited = 2

\* positions of the status callback's invocations in the trace
StatusEvents == {t \in DOMAIN trace : trace[t].ev = "status"}
EngagingStatuses ==
  {t \in DOMAIN trace : trace[t].ev = "status" /\ trace[t].kind = "ENGAGING"}

\* endpoint calls that go to another model than the call before them
ModelSwitches == {c \in DOMAIN callLog : c > 1 /\ callLog[c] # callLog[c - 1]}

\* C30: when the first endpoint call succeeds the status callback is never
\* invoked; with a callback, there is one backup-engine status per model
\* switch and one RETRYING status per same-model retry (counting the switch or
\* retry whose wait is running), and no status of any other kind; without a
\* callback there is no status at all.
C30_StatusCounts ==
  /\ (outcome.kind = "resolved" /\ outcome.value.call = 1) => StatusEvents = {}
  /\ onUpdate = "absent" => StatusEvents = {}
  /\ onUpdate = "returns" =>
       /\ Cardinality(EngagingStatuses)
            = Cardinality(ModelSwitches) + (IF pc = "cooldown" THEN 1 ELSE 0)
       /\ Cardinality(RetryStatuses)
            = Cardinality(SameModelRetries) + (IF pc = "retry_wait" THEN 1 ELSE 0)
       /\ StatusEvents = EngagingStatuses \cup RetryStatuses
       /\ pc = "done" => Cardinality(StatusEvents) = Len(callLog) - 1

\* with a callback, both models of a two-model pipeline were retried and the
\* invocation ended: one switch, two retries, three statuses
C30_Witness ==
  /\ onUpdate = "returns"
  /\ pc = "done"
  /\ Cardinality(ModelSwitches) = 1
  /\ Cardinality(SameModelRetries) = 2
  /\ Cardinality(StatusEvents) = 3

\* the responses to adapter a whose text is empty
EmptyResponses(a) == {r \in Responses(a) : r.text = "empty"}

\* C31: the arrival of an empty text within the deadline is a failed attempt
\* of analyzeChart, runSimulation and calculateBacktestScore: an error without
\* markers is caught, nothing is returned, and the retry or, without a retry
\* left, the switch (or, on the last model, the rejection) follows.  For
\* fetchMarketContext it is a success of that call: the operation resolves at
\* once with the summary "No data.", no headline and the called model as
\* model_used; when it is the first call there is no retry, switch, status or
\* wait at all.  A resolved fetchMarketContext always has a summary and at
\* most three headlines.
C31_EmptyText ==
  /\ [][\A c \in pending : \A r \in EmptyResponses(op) :
          ResponseArrives(c, r) =>
            IF op \in JsonAdapters
              THEN /\ lastFail' = EndpointError(c, {}, Len(trace))
                   /\ outcome'.kind # "resolved"
                   /\ result' = result /\ payload' = payload
                   /\ IF retries > 0
                        THEN pc' = "retry_wait" /\ i' = i /\ caught' = caught
                        ELSE /\ CatchStep
                             /\ IF i < Len(models)
                                  THEN i' = i + 1 /\ pc' = "loop"
                                  ELSE outcome' = Rejected(lastFail')
              ELSE /\ outcome'.kind = "resolved"
                   /\ pc' = "done"
                   /\ payload'.summary = "No data."
                   /\ payload'.headlines = 0
                   /\ outcome'.value.model_used = models[i]
                   /\ outcome'.value.call = c
                   /\ UNCHANGED <<callLog, trace, caught, i>>]_vars
  /\ []((op = "fetchMarketContext" /\ payload.summary = "No data." /\ result.call = 1)
          => /\ Len(callLog) = 1
             /\ caught = <<>>
             /\ \A t \in DOMAIN trace : trace[t].ev = "call"
             /\ outcome.value.model_used = models[1])
  /\ []((op = "fetchMarketContext" /\ outcome.kind = "resolved")
          => (payload.summary # "" /\ payload.headlines <= 3))

\* fetchMarketContext returned the fallback summary from the first call to
\* the first model
C31_Witness ==
  /\ op = "fetchMarketContext"
  /\ returned.kind = "resolved"
  /\ returned.body.summary = "No data."
  /\ returned.value.model_used = models[1]
  /\ Len(callLog) = 1

\* C32: the analysis and the simulation held by the App were made from the
\* image that is selected.
C32_StateBelongsToImage ==
  /\ (analysis # NoAnalysis => analysis.image = image)
  /\ (simulation # 0 => simulation = image)


\* the history never holds more than HistoryLimit entries
HistoryCapped == Len(savedSimulations) <= HistoryLimit

\* a save that was stored puts the new entry first and drops nothing but the
\* last entry of a full history
SavePutsFirst ==
  (\E stored \in BOOLEAN : handleSaveSimulation(stored)) =>
     \/ savedSimulations' = savedSimulations
     \/ /\ savedSimulations' # <<>>
        /\ \A k \in DOMAIN savedSimulations :
             savedSimulations[k].id # Head(savedSimulations').id
        /\ Tail(savedSimulations') =
             SubSeq(savedSimulations, 1,
                    Min(Len(savedSimulations), HistoryLimit - 1))

\* a backtest completion changes nothing but the backtest of the entry whose
\* id is that of the selected simulation
BacktestChangesSelected ==
  (\E ok \in BOOLEAN, stored \in BOOLEAN : BacktestSettles(ok, stored)) =>
     /\ Len(savedSimulations') = Len(savedSimulations)
     /\ \A k \in DOMAIN savedSimulations :
          \/ savedSimulations'[k] = savedSimulations[k]
          \/ /\ savedSimulations[k].id = selectedSimulationForBacktest.id
             /\ savedSimulations'[k] =
                  [savedSimulations[k] EXCEPT
                     !.backtest = savedSimulations'[k].backtest]

\* C33: the history holds at most 10 entries, a save puts the new entry first
\* and evicts only the last entry, and a backtest completion changes only the
\* entry whose id matches the selected simulation.
C33_History ==
  /\ HistoryCapped
  /\ [][HistoryCapped' /\ SavePutsFirst /\ BacktestChangesSelected]_vars


\* the cool-down waits of the invocation, in order
CoolDowns == SelectSeq(trace, LAMBDA e : e.ev = "wait")

\* the retries argument the invocation was started with
RetriesArgument == retries + Len(CoolDowns)

\* C34: with the defaults, the k-th wait is 5000 + 2000 * (k - 1) ms plus a
\* jitter below 1000 ms.
C34_LinearWaits ==
  RetriesArgument = DefaultRetries =>
    \A k \in DOMAIN CoolDowns :
      CoolDowns[k].n - (DefaultDelay + LinearStep * (k - 1))
        \in 0..(JitterRange - 1)

RECURSIVE SumWaits(_)
SumWaits(w) == IF w = <<>> THEN 0 ELSE Head(w).n + SumWaits(Tail(w))

\* the documented total: 2 to 3 minutes
MinTotalWait == 120000
MaxTotalWait == 180000

\* C35: with the defaults, the waits made before giving up on an endpoint that
\* stays rate-limited sum to between 2 and 3 minutes, whatever the jitters.
C35_TotalWait ==
  (RetriesArgument = DefaultRetries /\ pc = "done" /\ retries = 0
     /\ outcome.kind = "rejected")
    => SumWaits(CoolDowns) \in MinTotalWait..MaxTotalWait

\* C36: only rate-limit failures are retried, at most R + 1 calls are made, a
\* failure that is not a rate limit ends the operation without a wait, an
\* "API Key" failure is replaced by AUTH FAILURE, and rate-limit failures of
\* all R + 1 calls end with NETWORK JAMMED.
C36_RetryPolicy ==
  /\ FnCalls <= RetriesArgument + 1
  /\ [][\A msg \in RetryMessages, status \in FnStatuses, jitter \in Jitters :
          FnRejects(msg, status, jitter) =>
            /\ trace' # trace => isRateLimit(msg, status)
            /\ ~isRateLimit(msg, status) => trace' = trace /\ pc' = "done"
            /\ includes(msg, "API Key") => outcome' = Rejected(AuthFailure)
            /\ (isRateLimit(msg, status) /\ retries = 0)
                 => outcome' = Rejected(NetworkJammed)]_vars


\* the markers of a quota-exhausted failure and of a transient failure
QuotaMarkers == {"429", "quota", "per day"}
TransientMarkers == {"fetch failed", "503"}

\* the adapters that fall back to a locally generated result
FallbackAdapters == {"analyzeChart", "runSimulation", "calculateBacktestScore"}

\* C37: a quota-exhausted failure is not retried and becomes QUOTA_EXHAUSTED,
\* on which analyzeChart, runSimulation and calculateBacktestScore resolve with
\* a locally generated result; any other failure is retried only when it is
\* transient, at most `retries` times, and otherwise the adapter rejects.
C37_OfflineFallback ==
  /\ FnCalls <= AdapterRetries(op) + 1
  /\ (outcome = Rejected(QuotaExhausted) /\ op \in FallbackAdapters)
       => /\ returned.kind # "rejected"
          /\ pc = "done" => returned = Returns(NoValue, OfflineBody(op))
  /\ [][\A msg \in OfflineMessages :
          OfflineFnRejects(msg) =>
            IF msg \cap QuotaMarkers # {}
              THEN /\ outcome' = Rejected(QuotaExhausted)
                   /\ retries' = retries
                   /\ pc' # "wait"
              ELSE IF msg \cap TransientMarkers # {} /\ retries > 0
              THEN /\ pc' = "wait"
                   /\ retries' = retries - 1
                   /\ outcome' = Pending
              ELSE /\ outcome' = Rejected(EndpointError(FnCalls, msg, 0))
                   /\ pc' = "done"
                   /\ op \in FallbackAdapters =>
                        returned' = Throws(EndpointError(FnCalls, msg, 0))]_vars
  /\ [][OfflineDeadlineFires =>
          /\ outcome' = Rejected(TookTooLong(FnCalls))
          /\ pc' = "done"
          /\ op \in FallbackAdapters => returned' = Throws(TookTooLong(FnCalls))]_vars

\* runSimulation has returned its generated result after one transient failure
\* was retried and the second call hit the quota
C37_Witness ==
  /\ op = "runSimulation"
  /\ FnCalls = 2
  /\ lastFail.msg \cap QuotaMarkers # {}
  /\ outcome = Rejected(QuotaExhausted)
  /\ returned = Returns(NoValue, OfflineBody("runSimulation"))


\* C38: generateOfflineSimulation returns 10 candles with day = 1..10 in
\* order, the first open the start price, each later open the previous close,
\* high >= max(open, close) and low <= min(open, close).
C38_GhostCandles ==
  pc = "returned" =>
    /\ Len(ghost_candles) = CandleCount
    /\ \A k \in DOMAIN ghost_candles :
         LET c == ghost_candles[k] IN
         /\ c.day = k
         /\ c.open = (IF k = 1 THEN lastPrice ELSE ghost_candles[k - 1].close)
         /\ c.high >= c.open /\ c.high >= c.close
         /\ c.low <= c.open /\ c.low <= c.close

====
